---- MODULE Spec2Model ----
(***************************************************************************)
(* Schema registry and drift policy enforcement of the BigQuery schema     *)
(* accelerator.                                                            *)
(*                                                                         *)
(*   app/governance/schema_registry.py   SchemaRegistry, compute_schema_hash*)
(*   src/app/governance/drift_policy.py  DriftPolicy, DriftPolicyEnforcer  *)
(*                                                                         *)
(* Python values are modelled as follows.                                  *)
(*   - a dict is a TLA+ record/function; a missing key is a missing field; *)
(*   - a str that the code takes apart (a version id such as "v12") is a   *)
(*     sequence of one-character strings; other strs are TLA+ strings;     *)
(*   - a list that the code mutates in place (change_summary, line 175) is *)
(*     an object on a heap (variable lists) and the dicts hold references  *)
(*     to it, so that two dicts holding the same list object see each      *)
(*     other's writes.  Schema lists are only ever rebound, never mutated  *)
(*     by the registry, so they are held by value;                         *)
(*   - the str entry "initial version" of a change_summary is wrapped in a *)
(*     record [text |-> ...] so that every entry of a list is a record;    *)
(*   - sha256 over the JSON payload is taken to be collision free: a digest*)
(*     is represented by the payload it was computed from.                 *)
(***************************************************************************)
EXTENDS Integers, Sequences, FiniteSets, TLC

\* ------------------------------------------------------------------
\* Bounds of the model
\* ------------------------------------------------------------------
MaxVersions == 2
MaxEntries == 3

\* instants utc_now() can return, in order
Times == {"T1", "T2"}

\* ------------------------------------------------------------------
\* Inputs: entities, schemas, change entries, diff reports
\* ------------------------------------------------------------------
Entities == {"orders", "users"}

ColId == [name |-> "id", type |-> "INTEGER", mode |-> "REQUIRED"]
ColEmail == [name |-> "email", type |-> "STRING", mode |-> "NULLABLE"]
ColEmailNoMode == [name |-> "email", type |-> "STRING"]
ColEmailDoc == [name |-> "email", type |-> "STRING", mode |-> "NULLABLE", description |-> "contact"]
ColTotal == [name |-> "total", type |-> "FLOAT", mode |-> "NULLABLE"]

SchemaBase == <<ColId, ColEmail>>
SchemaReordered == <<ColEmail, ColId>>
SchemaDoc == <<ColId, ColEmailDoc>>
SchemaNoMode == <<ColId, ColEmailNoMode>>
SchemaAdded == <<ColId, ColEmail, ColTotal>>
SchemaRemoved == <<ColId>>

Schemas == {SchemaBase, SchemaDoc, SchemaRemoved}

\* the names of get_standard_metadata_columns()
StandardMetadataNames ==
  {"_ingestion_timestamp", "_source_system", "_batch_id", "_record_hash",
   "_is_deleted", "_deleted_timestamp", "_op_type", "_op_ts"}

\* columns of the platform: the standard metadata column _batch_id that
\* MetadataInjector adds to every table, and a source column whose name is
\* in the diff's METADATA_COLUMNS
ColStdBatchId == [name |-> "_batch_id", type |-> "STRING", mode |-> "REQUIRED",
                  description |-> "Unique identifier for the ingestion batch"]
ColBatchId == [name |-> "batch_id", type |-> "STRING", mode |-> "NULLABLE"]

\* source columns as route generates them: map_canonical_to_bigquery gives a
\* scalar source column the mode NULLABLE, and MetadataInjector gives every
\* column without a description a generated one
RouteColId == [name |-> "id", type |-> "INTEGER", mode |-> "NULLABLE", description |-> "id"]
RouteColEmail == [name |-> "email", type |-> "STRING", mode |-> "NULLABLE", description |-> "email"]
RouteColEmailDoc == [name |-> "email", type |-> "STRING", mode |-> "NULLABLE", description |-> "contact"]
RouteColEmailInt == [name |-> "email", type |-> "INTEGER", mode |-> "NULLABLE", description |-> "email"]
RouteColTotal == [name |-> "total", type |-> "FLOAT", mode |-> "NULLABLE", description |-> "total"]
RouteColBatchId == [name |-> "batch_id", type |-> "STRING", mode |-> "NULLABLE", description |-> "batch id"]

\* what bq_schema.to_dict() hands to the drift phase of route: the source
\* columns followed by the standard metadata column
RouteSchemas ==
  { <<RouteColId, RouteColEmail, ColStdBatchId>>,
    <<RouteColEmail, RouteColId, ColStdBatchId>>,
    <<RouteColId, RouteColEmailDoc, ColStdBatchId>>,
    <<RouteColId, RouteColEmail, RouteColTotal, ColStdBatchId>>,
    <<RouteColId, RouteColEmailInt, ColStdBatchId>>,
    <<RouteColId, RouteColEmail, RouteColBatchId, ColStdBatchId>>,
    <<RouteColId, ColStdBatchId>> }

ChangeRemove == [type |-> "REMOVE_COLUMN", column |-> "email"]
ChangeAdd == [type |-> "ADD_NULLABLE_COLUMN", column |-> "total"]

\* change_summary arguments built by a caller of the registry
SummaryValues == {<<ChangeAdd>>}

\* diff reports handed to enforce; the first has neither key (dict.get default)
DiffReports ==
  { [added_columns |-> <<>>],
    [breaking_changes |-> <<>>, non_breaking_changes |-> <<>>],
    [breaking_changes |-> <<ChangeRemove>>, non_breaking_changes |-> <<>>],
    [breaking_changes |-> <<>>, non_breaking_changes |-> <<ChangeAdd>>],
    [breaking_changes |-> <<ChangeRemove>>, non_breaking_changes |-> <<ChangeAdd>>] }

\* ------------------------------------------------------------------
\* Python helpers
\* ------------------------------------------------------------------
\* dict.get(key, default)
Get(d, key, default) == IF key \in DOMAIN d THEN d[key] ELSE default

\* str(n) for n >= 0 and int(s) for a string of decimal digits
DigitChars == <<"0", "1", "2", "3", "4", "5", "6", "7", "8", "9">>

RECURSIVE IntToStr(_)
IntToStr(n) ==
  IF n < 10 THEN <<DigitChars[n + 1]>>
  ELSE IntToStr(n \div 10) \o <<DigitChars[(n % 10) + 1]>>

DigitValue(c) == (CHOOSE i \in 1..10 : DigitChars[i] = c) - 1

RECURSIVE StrToInt(_)
StrToInt(s) ==
  IF Len(s) = 0 THEN 0
  ELSE 10 * StrToInt(SubSeq(s, 1, Len(s) - 1)) + DigitValue(s[Len(s)])

\* f"v{n}"
VersionId(n) == <<"v">> \o IntToStr(n)

\* a version number that skips one
NextVersionNumSkipping(current_version) == StrToInt(Tail(current_version)) + 2

\* int(current_version[1:]) + 1
NextVersionNum(current_version) == StrToInt(Tail(current_version)) + 1

\* Python's order on the column names in use (str comparison)
NameOrder == <<"_batch_id", "batch_id", "email", "id", "total">>
NameRank(n) == CHOOSE i \in 1..Len(NameOrder) : NameOrder[i] = n

\* sorted(xs, key=lambda x: x["name"]): stable, ascending
RECURSIVE SortedByName(_)
SortedByName(xs) ==
  IF Len(xs) = 0 THEN <<>>
  ELSE LET init == SortedByName(SubSeq(xs, 1, Len(xs) - 1))
           x == xs[Len(xs)]
           k == Cardinality({i \in 1..Len(init) : NameRank(init[i].name) <= NameRank(x.name)})
       IN SubSeq(init, 1, k) \o <<x>> \o SubSeq(init, k + 1, Len(init))

\* ------------------------------------------------------------------
\* Schema hashing
\* ------------------------------------------------------------------
normalize_schema_for_hash(schema) ==
  SortedByName([i \in 1..Len(schema) |->
     [name |-> schema[i].name,
      type |-> schema[i].type,
      mode |-> Get(schema[i], "mode", "NULLABLE")]])

compute_schema_hash(schema) ==
  [sha256 |-> normalize_schema_for_hash(schema)]

\* ------------------------------------------------------------------
\* State
\* ------------------------------------------------------------------
VARIABLES
  data,    \* SchemaRegistry.data: entity -> entity record
  lists,   \* heap of change_summary list objects: reference -> entries
  disk,    \* the registry file: [exists, content]
  clock,   \* what utc_now() returns
  last     \* the last call made and its outcome

vars == <<data, lists, disk, clock, last>>

InitialEntry == [text |-> "initial version"]

NoVersion == <<>>

\* references to the list objects held by the registry
VersionKeys(c) == UNION {{<<e, v>> : v \in DOMAIN c[e].versions} : e \in DOMAIN c}

RefsOf(d) == {d[r[1]].versions[r[2]].change_summary : r \in VersionKeys(d)}
Refs == RefsOf(data)

\* json.dump(self.data): references are written out as the lists they name
Dump(d, h) ==
  [e \in DOMAIN d |->
     [entity |-> d[e].entity,
      current_version |-> d[e].current_version,
      versions |-> [v \in DOMAIN d[e].versions |->
         [d[e].versions[v] EXCEPT !.change_summary = h[@]]]]]

\* json.load: every list of the file becomes a list object of its own
LoadData(c) ==
  [e \in DOMAIN c |->
     [entity |-> c[e].entity,
      current_version |-> c[e].current_version,
      versions |-> [v \in DOMAIN c[e].versions |->
         [c[e].versions[v] EXCEPT !.change_summary = <<e, v>>]]]]

LoadLists(c) == [r \in VersionKeys(c) |-> c[r[1]].versions[r[2]].change_summary]

\* the registry object: in-memory dict, heap, file
Self == [data |-> data, lists |-> lists, disk |-> disk]

\* SchemaRegistry._save
_save(self) ==
  [self EXCEPT !.disk = [exists |-> TRUE, content |-> Dump(self.data, self.lists)]]

\* SchemaRegistry._load (called by __init__)
_load(self) ==
  IF self.disk.exists
  THEN [self EXCEPT !.data = LoadData(self.disk.content),
                    !.lists = LoadLists(self.disk.content)]
  ELSE [self EXCEPT !.data = <<>>, !.lists = <<>>]

\* the outcome of a call: the registry after it, the exception raised (""
\* when it returned) and the version id returned
Returned(self, version) == [self |-> self, raised |-> "", ret |-> version]
Raised(self, exc) == [self |-> self, raised |-> exc, ret |-> NoVersion]

\* ------------------------------------------------------------------
\* Read operations
\* ------------------------------------------------------------------
\* get_entity(entity) is not None / is truthy
HasEntity(self, entity) == entity \in DOMAIN self.data

get_current_version(self, entity) ==
  IF HasEntity(self, entity) THEN self.data[entity].current_version ELSE NoVersion

\* ------------------------------------------------------------------
\* Write operations.  A list argument cs is [is_new, ref, value]: either a
\* list object the registry does not hold yet (is_new, with its entries in
\* value) or the list object ref that some stored version already holds.
\* ------------------------------------------------------------------
NewList(value) == [is_new |-> TRUE, ref |-> <<>>, value |-> value]
HeldList(ref) == [is_new |-> FALSE, ref |-> ref, value |-> <<>>]

ArgValue(self, cs) == IF cs.is_new THEN cs.value ELSE self.lists[cs.ref]

\* a registry that does not look for the entity before registering it
AlreadyExistsUnchecked(self, entity) == FALSE

\* "if entity in self.data" of register_new_entity
AlreadyExists(self, entity) == entity \in DOMAIN self.data

\* "if entity not in self.data" of the version operations
Missing(self, entity) == entity \notin DOMAIN self.data

\* the dict stored for a version; generated_at and modified_at are two
\* readings of the clock taken one after the other, modelled as one reading
VersionEntry(entity, version, schema_hash, utc_now, breaking, ref, schema) ==
  [version |-> version,
   table_name |-> <<entity, "_", version>>,
   schema_hash |-> schema_hash,
   generated_at |-> utc_now,
   modified_at |-> utc_now,
   breaking_change |-> breaking,
   change_summary |-> ref,
   schema |-> schema]

register_new_entity(self, entity, schema, utc_now) ==
  IF AlreadyExists(self, entity)
  THEN Raised(self, "ValueError")
  ELSE LET schema_hash == compute_schema_hash(schema)
           ref == <<entity, VersionId(1)>>
           rec == [entity |-> entity,
                   current_version |-> VersionId(1),
                   versions |-> (VersionId(1) :>
                      VersionEntry(entity, VersionId(1), schema_hash, utc_now,
                                   FALSE, ref, schema))]
           after == [self EXCEPT !.data = (entity :> rec) @@ self.data,
                                 !.lists = (ref :> <<InitialEntry>>) @@ self.lists]
       IN Returned(_save(after), VersionId(1))

\* a registry that does not compare the hash with the current version's
IsDuplicateNever(new_schema_hash, current_entry) == FALSE

\* "Prevent duplicate versions with identical schema"
IsDuplicate(new_schema_hash, current_entry) == new_schema_hash = current_entry.schema_hash

\* the entry is stored and the pointer stays where it was
StoreVersionPointerStays(entity_data, next_version, entry) ==
  [entity_data EXCEPT !.versions = (next_version :> entry) @@ @]

\* the entry is written under the current version's key, and the pointer moves on
StoreVersionWrongKey(entity_data, next_version, entry) ==
  [entity_data EXCEPT !.versions = (entity_data.current_version :> entry) @@ @,
                      !.current_version = next_version]

\* entity_data["versions"][next_version] = {...}; entity_data["current_version"] = next_version
StoreVersion(entity_data, next_version, entry) ==
  [entity_data EXCEPT !.versions = (next_version :> entry) @@ @,
                      !.current_version = next_version]

register_new_version(self, entity, schema, breaking, cs, utc_now) ==
  IF Missing(self, entity)
  THEN Raised(self, "ValueError")
  ELSE LET entity_data == self.data[entity]
           current_version == entity_data.current_version
           current_entry == entity_data.versions[current_version]
           new_schema_hash == compute_schema_hash(schema)
       IN IF IsDuplicate(new_schema_hash, current_entry)
          THEN Returned(self, current_version)
          ELSE LET next_version == VersionId(NextVersionNum(current_version))
                   ref == IF cs.is_new THEN <<entity, next_version>> ELSE cs.ref
                   entry == VersionEntry(entity, next_version, new_schema_hash, utc_now,
                                         breaking, ref, schema)
                   after == [self EXCEPT
                      !.data[entity] = StoreVersion(entity_data, next_version, entry),
                      !.lists = (ref :> ArgValue(self, cs)) @@ @]
               IN Returned(_save(after), next_version)

\* "No-op if schema unchanged"
IsUnchanged(new_schema_hash, version_entry) == new_schema_hash = version_entry.schema_hash

\* the schema is replaced and the hash is left as it was
UpdatedEntryStaleHash(version_entry, schema, new_schema_hash, utc_now) ==
  [version_entry EXCEPT !.schema = schema,
                        !.modified_at = utc_now]

\* version_entry["schema"] = ...; ["schema_hash"] = ...; ["modified_at"] = ...
UpdatedEntry(version_entry, schema, new_schema_hash, utc_now) ==
  [version_entry EXCEPT !.schema = schema,
                        !.schema_hash = new_schema_hash,
                        !.modified_at = utc_now]

\* the list is replaced by the items instead of extended with them
ExtendReplacing(list, items) == items

\* list.extend(items)
Extend(list, items) == list \o items

update_current_version_schema(self, entity, schema, cs, utc_now) ==
  IF Missing(self, entity)
  THEN Raised(self, "ValueError")
  ELSE LET entity_data == self.data[entity]
           current_version == entity_data.current_version
           version_entry == entity_data.versions[current_version]
           new_schema_hash == compute_schema_hash(schema)
           ref == version_entry.change_summary
       IN IF IsUnchanged(new_schema_hash, version_entry)
          THEN Returned(self, current_version)
          ELSE LET after == [self EXCEPT
                      !.data[entity].versions[current_version] =
                          UpdatedEntry(version_entry, schema, new_schema_hash, utc_now),
                      !.lists[ref] = Extend(@, ArgValue(self, cs))]
               IN Returned(_save(after), current_version)

\* ------------------------------------------------------------------
\* Drift policy
\* ------------------------------------------------------------------
STRICT == "STRICT"
WARN == "WARN"
AUTO == "AUTO"

is_valid(policy) == policy \in {STRICT, WARN, AUTO}

\* policy values a request may carry
PolicyInputs == {STRICT, WARN, AUTO, "IGNORE", "strict"}

\* WARN falls through to the in-place update
BreakingActionWarnUpdates(policy) ==
  IF policy = STRICT THEN "raise"
  ELSE IF policy = AUTO THEN "new_version"
  ELSE "update"

\* STRICT handled as AUTO
BreakingActionLenient(policy) ==
  IF policy = WARN THEN "keep"
  ELSE IF policy \in {AUTO, STRICT} THEN "new_version"
  ELSE "update"

\* what enforce does with a report that lists breaking changes
BreakingAction(policy) ==
  IF policy = STRICT THEN "raise"
  ELSE IF policy = WARN THEN "keep"
  ELSE IF policy = AUTO THEN "new_version"
  ELSE "update"

\* only the breaking changes are recorded
AutoSummaryBreakingOnly(breaking, non_breaking) == breaking

\* change_summary=breaking + non_breaking
AutoSummary(breaking, non_breaking) == breaking \o non_breaking

\* enforce with the "no changes" test placed before the first-time
\* registration
enforce_changes_first(self, policy, entity, diff_report, new_schema, utc_now) ==
  LET breaking == Get(diff_report, "breaking_changes", <<>>)
      non_breaking == Get(diff_report, "non_breaking_changes", <<>>)
      current_version == get_current_version(self, entity)
  IN IF Len(breaking) = 0 /\ Len(non_breaking) = 0
     THEN Returned(self, current_version)
     ELSE IF ~HasEntity(self, entity)
     THEN register_new_entity(self, entity, new_schema, utc_now)
     ELSE IF Len(breaking) # 0 /\ BreakingAction(policy) = "raise"
     THEN Raised(self, "RuntimeError")
     ELSE IF Len(breaking) # 0 /\ BreakingAction(policy) = "keep"
     THEN Returned(self, current_version)
     ELSE IF Len(breaking) # 0 /\ BreakingAction(policy) = "new_version"
     THEN register_new_version(self, entity, new_schema, TRUE,
                               NewList(AutoSummary(breaking, non_breaking)), utc_now)
     ELSE update_current_version_schema(self, entity, new_schema,
                                        NewList(non_breaking), utc_now)

\* enforce with STRICT rejecting every report that lists a change
enforce_strict_rejects_all(self, policy, entity, diff_report, new_schema, utc_now) ==
  IF ~HasEntity(self, entity)
  THEN register_new_entity(self, entity, new_schema, utc_now)
  ELSE LET breaking == Get(diff_report, "breaking_changes", <<>>)
           non_breaking == Get(diff_report, "non_breaking_changes", <<>>)
           current_version == get_current_version(self, entity)
       IN IF Len(breaking) = 0 /\ Len(non_breaking) = 0
          THEN Returned(self, current_version)
          ELSE IF BreakingAction(policy) = "raise"
          THEN Raised(self, "RuntimeError")
          ELSE IF Len(breaking) # 0 /\ BreakingAction(policy) = "keep"
          THEN Returned(self, current_version)
          ELSE IF Len(breaking) # 0 /\ BreakingAction(policy) = "new_version"
          THEN register_new_version(self, entity, new_schema, TRUE,
                                    NewList(AutoSummary(breaking, non_breaking)), utc_now)
          ELSE update_current_version_schema(self, entity, new_schema,
                                             NewList(non_breaking), utc_now)

\* DriftPolicyEnforcer.enforce; ret is the version of the returned
\* (entity, version)
enforce(self, policy, entity, diff_report, new_schema, utc_now) ==
  IF ~HasEntity(self, entity)
  THEN register_new_entity(self, entity, new_schema, utc_now)
  ELSE LET breaking == Get(diff_report, "breaking_changes", <<>>)
           non_breaking == Get(diff_report, "non_breaking_changes", <<>>)
           current_version == get_current_version(self, entity)
       IN IF Len(breaking) = 0 /\ Len(non_breaking) = 0
          THEN Returned(self, current_version)
          ELSE IF Len(breaking) # 0 /\ BreakingAction(policy) = "raise"
          THEN Raised(self, "RuntimeError")
          ELSE IF Len(breaking) # 0 /\ BreakingAction(policy) = "keep"
          THEN Returned(self, current_version)
          ELSE IF Len(breaking) # 0 /\ BreakingAction(policy) = "new_version"
          THEN register_new_version(self, entity, new_schema, TRUE,
                                    NewList(AutoSummary(breaking, non_breaking)), utc_now)
          ELSE update_current_version_schema(self, entity, new_schema,
                                             NewList(non_breaking), utc_now)

\* DriftPolicyEnforcer.enforce of the accelerator package, on the same
\* registry: the report's keys are read with [], the report is looked at
\* before the entity, and WARN only prints
accelerator_enforce(self, policy, entity, diff_report, new_schema, utc_now) ==
  IF ~({"breaking_changes", "non_breaking_changes"} \subseteq DOMAIN diff_report)
  THEN Raised(self, "KeyError")
  ELSE LET breaking == diff_report["breaking_changes"]
           non_breaking == diff_report["non_breaking_changes"]
       IN IF Len(breaking) = 0 /\ Len(non_breaking) = 0
          THEN Returned(self, get_current_version(self, entity))
          ELSE IF ~HasEntity(self, entity)
          THEN register_new_entity(self, entity, new_schema, utc_now)
          ELSE IF Len(breaking) # 0 /\ policy = STRICT
          THEN Raised(self, "RuntimeError")
          ELSE IF Len(breaking) # 0 /\ policy = AUTO
          THEN register_new_version(self, entity, new_schema, TRUE, NewList(breaking), utc_now)
          ELSE update_current_version_schema(self, entity, new_schema,
                                             NewList(non_breaking), utc_now)

\* ------------------------------------------------------------------
\* Type inference.  A sampled value is a string; the token predicates are
\* given by their value on each of the tokens in use.
\* ------------------------------------------------------------------
NaivePadded == " 2024-01-01 10:00:00 "
OnePadded == " 1 "
Blank == " "

Tokens ==
  {"true", "TRUE", "no", "0", "1", OnePadded, "42", "3.14", "1e5",
   "2024-01-01 10:00:00", "2024-01-01T10:00:00", NaivePadded,
   "2024-01-01T10:00:00Z", "2024-01-01T10:00:00+05:30",
   "2024-01-01", "2024-01-01 10:00:00.5", "POINT(1 2)", "[2024-01-01, 2024-02-01)",
   "hello", "", "NULL", Blank}

\* str(v).strip()
Strip(v) ==
  IF v = NaivePadded THEN "2024-01-01 10:00:00"
  ELSE IF v = OnePadded THEN "1"
  ELSE IF v = Blank THEN ""
  ELSE v

\* v.lower()
Lower(v) == IF v = "TRUE" THEN "true" ELSE v

\* v in (None, "", "NULL", "null", "Null")
IsNullMarker(v) == v \in {"", "NULL", "null", "Null"}

_is_boolean(v) == Lower(Strip(v)) \in {"true", "false", "0", "1", "yes", "no", "y", "n", "t", "f"}

\* all(v in {"0", "1"} for v in normalized)
AllZeroOne(normalized) == \A i \in 1..Len(normalized) : normalized[i] \in {"0", "1"}

is_ambiguous_boolean(values) ==
  LET NotNull(v) == ~IsNullMarker(v)
      kept == SelectSeq(values, NotNull)
      normalized == [i \in 1..Len(kept) |-> Lower(Strip(kept[i]))]
  IN IF Len(normalized) = 0 THEN FALSE
     ELSE AllZeroOne(normalized)
_is_integer(v) == v \in {"0", "1", "42"}
_is_decimal(v) == v \in {"0", "1", "42", "3.14"}
_is_float(v) == v \in {"0", "1", "42", "3.14", "1e5"}
_is_naive_timestamp(v) == v \in {"2024-01-01 10:00:00", "2024-01-01T10:00:00"}
_is_timestamp_utc(v) == v \in {"2024-01-01T10:00:00Z", "2024-01-01T10:00:00+05:30"}
_is_date(v) == v \in {"2024-01-01"}
_is_geography(v) == v \in {"POINT(1 2)"}
_is_range_date(v) == v \in {"[2024-01-01, 2024-02-01)"}

\* "." in str(v)
HasPoint(v) == v \in {"3.14", "2024-01-01 10:00:00.5"}

\* naive timestamps are looked for only when every value is one
AnyNaiveTimestampAll(values) == \A i \in 1..Len(values) : _is_naive_timestamp(values[i])

\* any(_is_naive_timestamp(v) for v in values)
AnyNaiveTimestamp(values) == \E i \in 1..Len(values) : _is_naive_timestamp(values[i])

InferReturned(type) == [raised |-> "", ret |-> type]
InferRaised(exc) == [raised |-> exc, ret |-> ""]

infer_type(values_arg) ==
  IF Len(values_arg) = 0 THEN InferReturned("STRING")
  ELSE LET NotNull(v) == ~IsNullMarker(v)
           kept == SelectSeq(values_arg, NotNull)
           values == [i \in 1..Len(kept) |-> Strip(kept[i])]
       IN IF Len(values) = 0 THEN InferReturned("STRING")
          ELSE IF (\A i \in 1..Len(values) : _is_boolean(values[i]))
          THEN IF \A i \in 1..Len(values) : Lower(Strip(values[i])) \in {"0", "1"}
               THEN InferReturned("INTEGER")
               ELSE InferReturned("BOOLEAN")
          ELSE IF (\A i \in 1..Len(values) : _is_integer(values[i])) THEN InferReturned("INTEGER")
          ELSE IF (\A i \in 1..Len(values) : _is_decimal(values[i]))
          THEN IF \E i \in 1..Len(values) : HasPoint(values[i])
               THEN InferReturned("DECIMAL")
               ELSE InferReturned("INTEGER")
          ELSE IF (\A i \in 1..Len(values) : _is_float(values[i])) THEN InferReturned("FLOAT")
          ELSE IF AnyNaiveTimestamp(values) THEN InferRaised("NaiveTimestampError")
          ELSE IF (\A i \in 1..Len(values) : _is_timestamp_utc(values[i])) THEN InferReturned("TIMESTAMP")
          ELSE IF (\A i \in 1..Len(values) : _is_date(values[i])) THEN InferReturned("DATE")
          ELSE IF (\A i \in 1..Len(values) : _is_geography(values[i])) THEN InferReturned("GEOGRAPHY")
          ELSE IF (\A i \in 1..Len(values) : _is_range_date(values[i])) THEN InferReturned("RANGE_DATE")
          ELSE InferReturned("STRING")

\* CSVAdapter._infer_fields for one column without a type override: the
\* data_type and the is_ambiguous_boolean of the CanonicalField it builds
_infer_fields(values, forced_missing) ==
  LET r == infer_type(values)
      ambiguous == r.ret = "BOOLEAN" /\ is_ambiguous_boolean(values)
  IN IF r.raised # "" THEN [raised |-> r.raised, data_type |-> "", is_ambiguous_boolean |-> FALSE]
     ELSE [raised |-> "",
           data_type |-> IF forced_missing THEN "STRING" ELSE r.ret,
           is_ambiguous_boolean |-> ambiguous]

\* ------------------------------------------------------------------
\* Numeric metadata.  A decimal literal is the digits before and after its
\* point; a value Decimal() does not parse has no digits at all.
\* ------------------------------------------------------------------
Unparsed == [int |-> <<>>, frac |-> <<>>]

\* Decimal(str(v)) raises InvalidOperation
RaisesInvalidOperation(v) == Len(v.int) = 0

\* the coefficient of a Decimal has no leading zeros (a zero keeps one digit)
RECURSIVE Coefficient(_)
Coefficient(ds) ==
  IF Len(ds) > 1 /\ ds[1] = 0 THEN Coefficient(Tail(ds)) ELSE ds

\* Decimal(str(v)).as_tuple()
as_tuple(v) == [digits |-> Coefficient(v.int \o v.frac), exponent |-> 0 - Len(v.frac)]

MaxOf(S) == CHOOSE m \in S : \A n \in S : n <= m

None == [none |-> TRUE]

infer_numeric_metadata(values) ==
  LET parsed == {i \in 1..Len(values) : ~RaisesInvalidOperation(values[i])}
      precision(i) == Len(as_tuple(values[i]).digits)
      scale(i) == IF as_tuple(values[i]).exponent < 0 THEN 0 - as_tuple(values[i]).exponent ELSE 0
      max_precision == MaxOf({0} \cup {precision(i) : i \in parsed})
      max_scale == MaxOf({0} \cup {scale(i) : i \in parsed})
  IN IF max_precision = 0 THEN None
     ELSE [precision |-> max_precision, scale |-> max_scale,
           max_integer_digits |-> max_precision - max_scale, signed |-> TRUE]

\* ------------------------------------------------------------------
\* Naming normalization.  An identifier is the sequence of its characters;
\* a dict is the function from its keys to its values.
\* ------------------------------------------------------------------
\* d[key] = value
Put(d, key, value) == [x \in DOMAIN d \cup {key} |-> IF x = key THEN value ELSE d[x]]

\* c.lower(), on the characters in use
LowerChar(c) ==
  CASE c = "I" -> "i"
    [] c = "D" -> "d"
    [] c = "S" -> "s"
    [] c = "T" -> "t"
    [] OTHER -> c

\* [a-z], on the characters in use
IsLowerLetter(c) == c \in {"d", "e", "i", "r", "s", "t", "z"}

\* [0-9]
IsDigitChar(c) == \E i \in 1..Len(DigitChars) : DigitChars[i] = c

RECURSIVE LStrip(_)
LStrip(name) == IF Len(name) > 0 /\ name[1] = " " THEN LStrip(Tail(name)) ELSE name

RECURSIVE RStrip(_)
RStrip(name) ==
  IF Len(name) > 0 /\ name[Len(name)] = " " THEN RStrip(SubSeq(name, 1, Len(name) - 1)) ELSE name

\* name.strip()
StripName(name) == RStrip(LStrip(name))

\* name.lower()
LowerName(name) == [i \in 1..Len(name) |-> LowerChar(name[i])]

\* re.sub(r"[^a-z0-9_]", "_", name)
ReplaceDisallowed(name) ==
  [i \in 1..Len(name) |->
     IF IsLowerLetter(name[i]) \/ IsDigitChar(name[i]) \/ name[i] = "_" THEN name[i] ELSE "_"]

\* re.sub(r"_+", "_", name)
RECURSIVE CollapseUnderscores(_)
CollapseUnderscores(name) ==
  IF Len(name) < 2 THEN name
  ELSE IF name[1] = "_" /\ name[2] = "_" THEN CollapseUnderscores(Tail(name))
  ELSE <<name[1]>> \o CollapseUnderscores(Tail(name))

\* name[0] of an empty string raises IndexError
normalize_identifier(name_arg) ==
  LET name == CollapseUnderscores(ReplaceDisallowed(LowerName(StripName(name_arg))))
  IN IF Len(name) = 0 THEN [raised |-> "IndexError", ret |-> <<>>]
     ELSE IF ~(IsLowerLetter(name[1]) \/ name[1] = "_")
     THEN [raised |-> "", ret |-> <<"_">> \o name]
     ELSE [raised |-> "", ret |-> name]

\* f"{domain}_{env}_{zone}", normalized
build_dataset_name(domain, env, zone) ==
  normalize_identifier(domain \o <<"_">> \o env \o <<"_">> \o zone).ret

\* f"{domain}_{entity}_{layer}", normalized
build_table_name(domain, entity, layer) ==
  normalize_identifier(domain \o <<"_">> \o entity \o <<"_">> \o layer).ret

\* the reserved keywords of the warehouse among the names in use
ReservedKeywords == {<<"i", "s">>}

is_bigquery_reserved_keyword(name) == name \in ReservedKeywords

\* f"{normalized}_{count}"
Suffixed(normalized, count) == normalized \o <<"_">> \o IntToStr(count)

\* every occurrence keeps the normalized name
FinalColumnNameUnnumbered(normalized, count) == normalized

\* normalized if count == 1 else f"{normalized}_{count}"
FinalColumnName(normalized, count) ==
  IF count = 1 THEN normalized ELSE Suffixed(normalized, count)

\* the counters of the previous call are still there
SeenColumnsKept ==
  IF last.call.op = "apply_naming_normalization" THEN last.seen_columns ELSE <<>>

\* seen_columns: Dict[str, int] = {}
NewSeenColumns == <<>>

\* the loop over table.fields, after its first k rounds: seen_columns, the
\* table's rename mapping, the fields as renamed so far, and the exception
\* that ended the loop
RECURSIVE NameFields(_, _, _, _)
NameFields(fields, k, canonical_table_name, seen_columns) ==
  IF k = 0
  THEN [seen_columns |-> seen_columns, columns |-> <<>>, fields |-> fields, raised |-> ""]
  ELSE LET acc == NameFields(fields, k - 1, canonical_table_name, seen_columns)
       IN IF acc.raised # "" THEN acc
          ELSE LET raw_column_name == fields[k].name
                   n == normalize_identifier(raw_column_name)
               IN IF n.raised # "" THEN [acc EXCEPT !.raised = n.raised]
                  ELSE LET normalized == IF is_bigquery_reserved_keyword(n.ret)
                                         THEN canonical_table_name \o <<"_">> \o n.ret
                                         ELSE n.ret
                           count == Get(acc.seen_columns, normalized, 0) + 1
                           final_column_name == FinalColumnName(normalized, count)
                       IN [seen_columns |-> Put(acc.seen_columns, normalized, count),
                           columns |-> Put(acc.columns, raw_column_name, final_column_name),
                           fields |-> [acc.fields EXCEPT ![k].name = final_column_name],
                           raised |-> ""]

\* schema.rename_mappings = {"tables": {}, "columns": {}}
NewRenameMappings == [tables |-> <<>>, columns |-> <<>>]

\* the loop over schema.tables, after its first j rounds
RECURSIVE NameTables(_, _)
NameTables(schema, j) ==
  IF j = 0
  THEN [tables |-> schema.tables, rename_mappings |-> NewRenameMappings,
        seen_columns |-> <<>>, raised |-> ""]
  ELSE LET acc == NameTables(schema, j - 1)
       IN IF acc.raised # "" THEN acc
          ELSE LET table == schema.tables[j]
                   raw_table_name == table.name
                   canonical_table_name ==
                     build_table_name(schema.dataset.domain, raw_table_name, schema.dataset.layer)
                   f == NameFields(table.fields, Len(table.fields), canonical_table_name,
                                   NewSeenColumns)
               IN [tables |-> [acc.tables EXCEPT
                                 ![j] = [name |-> canonical_table_name, fields |-> f.fields]],
                   rename_mappings |->
                     [tables |-> Put(acc.rename_mappings.tables, raw_table_name,
                                     canonical_table_name),
                      columns |-> Put(acc.rename_mappings.columns, canonical_table_name,
                                      f.columns)],
                   seen_columns |-> f.seen_columns,
                   raised |-> f.raised]

\* "not (domain and env and zone and layer)"
Truthy(value) == Len(value) > 0

\* the schema object after the call, the exception raised if any, and the
\* seen_columns the call ended with
apply_naming_normalization(schema) ==
  IF ~(/\ Truthy(schema.dataset.domain) /\ Truthy(schema.dataset.environment)
       /\ Truthy(schema.dataset.zone) /\ Truthy(schema.dataset.layer))
  THEN [raised |-> "ValueError", schema |-> schema, seen_columns |-> <<>>]
  ELSE LET t == NameTables(schema, Len(schema.tables))
       IN [raised |-> t.raised,
           schema |-> [dataset |-> [schema.dataset EXCEPT
                                      !.dataset_name = build_dataset_name(schema.dataset.domain,
                                                                          schema.dataset.environment,
                                                                          schema.dataset.zone)],
                       tables |-> t.tables,
                       rename_mappings |-> t.rename_mappings],
           seen_columns |-> t.seen_columns]

\* ------------------------------------------------------------------
\* Schema diff.  A dict keyed by column name is the sequence of its values
\* in key order (the order in which the keys were first inserted).
\* ------------------------------------------------------------------
METADATA_COLUMNS ==
  {"ingestion_timestamp", "source_system", "batch_id", "record_hash",
   "is_deleted", "deleted_timestamp", "op_type", "op_ts"}

\* f["name"] in METADATA_COLUMNS
IsMetadataColumn(name) == name \in METADATA_COLUMNS

\* "name in d" for a dict d keyed by column name
HasKey(d, name) == \E i \in 1..Len(d) : d[i].name = name

\* d[name]
AtKey(d, name) == d[CHOOSE i \in 1..Len(d) : d[i].name = name]

\* {f["name"]: f for f in fs}: a later column of the same name replaces the
\* value and keeps the position of the key
RECURSIVE DictByName(_)
DictByName(fs) ==
  IF Len(fs) = 0 THEN <<>>
  ELSE LET init == DictByName(SubSeq(fs, 1, Len(fs) - 1))
           f == fs[Len(fs)]
       IN IF HasKey(init, f.name)
          THEN [i \in 1..Len(init) |-> IF init[i].name = f.name THEN f ELSE init[i]]
          ELSE Append(init, f)

\* SchemaDiff.__init__: one of self.old_schema, self.new_schema
SchemaDiffInit(schema) ==
  LET Kept(f) == ~IsMetadataColumn(f.name)
  IN DictByName(SelectSeq(schema, Kept))

\* f.get("description"): <<>> stands for None
Description(f) == IF "description" \in DOMAIN f THEN <<f.description>> ELSE <<>>

_field_changed(old, new) ==
  \/ old.type # new.type
  \/ old.mode # new.mode
  \/ Description(old) # Description(new)

\* every added column is classified as non-breaking
ClassifyAddedLenient(col) ==
  [breaking |-> FALSE, entry |-> [type |-> "ADD_NULLABLE_COLUMN", column |-> col.name]]

\* _classify_changes, "Added columns"
ClassifyAdded(col) ==
  IF col.mode = "REQUIRED"
  THEN [breaking |-> TRUE, entry |-> [type |-> "ADD_REQUIRED_COLUMN", column |-> col.name]]
  ELSE [breaking |-> FALSE, entry |-> [type |-> "ADD_NULLABLE_COLUMN", column |-> col.name]]

\* _classify_changes, "Removed columns"
ClassifyRemoved(col) ==
  [breaking |-> TRUE, entry |-> [type |-> "REMOVE_COLUMN", column |-> col.name]]

\* _classify_changes, "Modified columns"
ClassifyModified(change) ==
  LET old == change.old
      new == change.new
  IN IF old.type # new.type
     THEN [breaking |-> TRUE,
           entry |-> [type |-> "TYPE_CHANGE", column |-> new.name,
                      from |-> old.type, to |-> new.type]]
     ELSE IF old.mode = "NULLABLE" /\ new.mode = "REQUIRED"
     THEN [breaking |-> TRUE, entry |-> [type |-> "NULLABLE_TO_REQUIRED", column |-> new.name]]
     ELSE [breaking |-> FALSE, entry |-> [type |-> "NON_BREAKING_MODIFICATION", column |-> new.name]]

\* the entries of one list of the pair returned by _classify_changes
Entries(classified, breaking) ==
  LET Wanted(c) == c.breaking = breaking
      kept == SelectSeq(classified, Wanted)
  IN [i \in 1..Len(kept) |-> kept[i].entry]

\* SchemaDiff(old_schema, new_schema).diff()
diff(old_schema_arg, new_schema_arg) ==
  LET old_schema == SchemaDiffInit(old_schema_arg)
      new_schema == SchemaDiffInit(new_schema_arg)
      IsAdded(f) == ~HasKey(old_schema, f.name)
      IsModified(f) == /\ HasKey(old_schema, f.name)
                       /\ _field_changed(AtKey(old_schema, f.name), f)
      IsRemoved(f) == ~HasKey(new_schema, f.name)
      added == SelectSeq(new_schema, IsAdded)
      changed == SelectSeq(new_schema, IsModified)
      modified == [i \in 1..Len(changed) |->
                     [column |-> changed[i].name,
                      old |-> AtKey(old_schema, changed[i].name),
                      new |-> changed[i]]]
      removed == SelectSeq(old_schema, IsRemoved)
      classified == [i \in 1..Len(added) |-> ClassifyAdded(added[i])]
                    \o [i \in 1..Len(removed) |-> ClassifyRemoved(removed[i])]
                    \o [i \in 1..Len(modified) |-> ClassifyModified(modified[i])]
  IN [added_columns |-> added,
      removed_columns |-> removed,
      modified_columns |-> modified,
      breaking_changes |-> Entries(classified, TRUE),
      non_breaking_changes |-> Entries(classified, FALSE)]

\* ------------------------------------------------------------------
\* route: the request handler.  Phases 1 to 7 (format detection, adapter
\* parsing with type inference, normalization, metadata injection, schema
\* generation, validation) are taken by their outcome: the column list
\* new_schema_dict, or the exception source_error one of them raises.
\* steps lists, in order, the parts of the handler that have started.
\* ------------------------------------------------------------------
EmptyReport ==
  [added_columns |-> <<>>, removed_columns |-> <<>>, modified_columns |-> <<>>,
   breaking_changes |-> <<>>, non_breaking_changes |-> <<>>]

StepDetect == "FormatDetector.detect"
StepParse == "adapter.parse"
StepRegistry == "SchemaRegistry"

RouteResult(r, steps, report) ==
  [self |-> r.self, raised |-> r.raised, ret |-> r.ret, steps |-> steps, report |-> report]

\* DriftPolicyEnforcer(policy, registry)
DriftPolicyEnforcer(policy, self) ==
  IF ~is_valid(policy) THEN Raised(self, "ValueError") ELSE Returned(self, NoVersion)

\* the diff report of Phase 8 without the gate
route_diff_report_ungated(registry, entity, new_schema_dict) ==
  IF HasEntity(registry, entity)
  THEN diff(registry.data[entity].versions[get_current_version(registry, entity)].schema,
            new_schema_dict)
  ELSE EmptyReport

\* the diff report of Phase 8, with its "fast no-op gate"
route_diff_report(registry, entity, new_schema_dict) ==
  IF HasEntity(registry, entity)
  THEN LET previous_version == get_current_version(registry, entity)
           previous_schema == registry.data[entity].versions[previous_version].schema
       IN IF compute_schema_hash(previous_schema) = compute_schema_hash(new_schema_dict)
          THEN EmptyReport
          ELSE diff(previous_schema, new_schema_dict)
  ELSE EmptyReport

\* route with the policy looked at only when the enforcer is constructed
route_validates_late(self, drift_policy, entity, source_error, preview_only, new_schema_dict, utc_now) ==
  IF source_error # ""
  THEN RouteResult(Raised(self, source_error), <<StepDetect, StepParse>>, EmptyReport)
  ELSE IF preview_only
  THEN RouteResult(Returned(self, NoVersion), <<StepDetect, StepParse>>, EmptyReport)
  ELSE LET registry == _load(self)
           constructed == DriftPolicyEnforcer(drift_policy, registry)
           diff_report == route_diff_report(registry, entity, new_schema_dict)
           steps == <<StepDetect, StepParse, StepRegistry>>
       IN IF constructed.raised # ""
          THEN RouteResult(constructed, steps, EmptyReport)
          ELSE RouteResult(enforce(registry, drift_policy, entity, diff_report,
                                   new_schema_dict, utc_now),
                           steps, diff_report)

route(self, drift_policy, entity, source_error, preview_only, new_schema_dict, utc_now) ==
  IF ~is_valid(drift_policy)
  THEN RouteResult(Raised(self, "ValueError"), <<>>, EmptyReport)
  ELSE IF source_error # ""
  THEN RouteResult(Raised(self, source_error), <<StepDetect, StepParse>>, EmptyReport)
  ELSE IF preview_only
  THEN RouteResult(Returned(self, NoVersion), <<StepDetect, StepParse>>, EmptyReport)
  ELSE LET registry == _load(self)
           constructed == DriftPolicyEnforcer(drift_policy, registry)
           diff_report == route_diff_report(registry, entity, new_schema_dict)
           steps == <<StepDetect, StepParse, StepRegistry>>
       IN IF constructed.raised # ""
          THEN RouteResult(constructed, steps, EmptyReport)
          ELSE RouteResult(enforce(registry, drift_policy, entity, diff_report,
                                   new_schema_dict, utc_now),
                           steps, diff_report)

\* ------------------------------------------------------------------
\* Transitions
\* ------------------------------------------------------------------
\* what a call is recorded as: operation, entity, policy and, for enforce,
\* whether the report lists breaking and non-breaking changes
Call(op, entity, policy, has_breaking, has_non_breaking) ==
  [op |-> op, entity |-> entity, policy |-> policy,
   has_breaking |-> has_breaking, has_non_breaking |-> has_non_breaking]

NoHash == compute_schema_hash(<<>>)

\* no call is in progress and the result of the last one has been taken
Idle == [call |-> Call("", "", "", FALSE, FALSE), raised |-> "", ret |-> NoVersion,
         hash |-> NoHash, changed |-> FALSE, repeat |-> FALSE]

\* the model's bounds on what a call may leave behind: the number of stored
\* versions and the number of stored change_summary entries
WithinBounds(self) ==
  /\ Cardinality(VersionKeys(self.data)) <= MaxVersions
  /\ Cardinality(UNION {{<<r, i>> : i \in 1..Len(self.lists[r])} : r \in DOMAIN self.lists})
       <= MaxEntries

\* what the caller sees of the registry: the dict with its lists read out
View(self) == Dump(self.data, self.lists)

\* a call made by an idle caller: the call completes and its outcome is
\* recorded until the caller goes on
Finish(call, hash, repeat, r) ==
  /\ WithinBounds(r.self)
  /\ data' = r.self.data
  /\ lists' = r.self.lists
  /\ disk' = r.self.disk
  /\ clock' = clock
  /\ last' = [call |-> call, raised |-> r.raised, ret |-> r.ret, hash |-> hash,
              changed |-> (View(r.self) # View(Self)), repeat |-> repeat]

\* list arguments a caller can pass: a list of its own ...
NewListArgs == {NewList(v) : v \in SummaryValues}

\* ... or a list that a stored version of the entity holds (the caller kept
\* it after an earlier call, or took it from get_entity)
HeldListArgs(entity) ==
  IF entity \in DOMAIN data
  THEN {HeldList(data[entity].versions[v].change_summary) : v \in DOMAIN data[entity].versions}
  ELSE {}

Init ==
  /\ data = <<>>
  /\ lists = <<>>
  /\ disk = [exists |-> FALSE, content |-> <<>>]
  /\ clock = "T1"
  /\ last = Idle

\* time passes between calls
Tick ==
  /\ last = Idle
  /\ clock = "T1"
  /\ clock' = "T2"
  /\ UNCHANGED <<data, lists, disk, last>>

\* the caller takes the outcome of its call and goes on
Resume ==
  /\ last # Idle
  /\ last' = Idle
  /\ UNCHANGED <<data, lists, disk, clock>>

\* SchemaRegistry(path): a new handle on the same file replaces the old one
Construct ==
  /\ last = Idle
  /\ Finish(Call("__init__", "", "", FALSE, FALSE), NoHash, FALSE,
            Returned(_load(Self), NoVersion))

RegisterNewEntity ==
  /\ last = Idle
  /\ \E entity \in Entities, schema \in Schemas :
       Finish(Call("register_new_entity", entity, "", FALSE, FALSE), NoHash, FALSE,
              register_new_entity(Self, entity, schema, clock))

CallRegisterNewVersion(entity, schema, breaking, cs, repeat) ==
  Finish(Call("register_new_version", entity, "", FALSE, FALSE),
         compute_schema_hash(schema), repeat,
         register_new_version(Self, entity, schema, breaking, cs, clock))

CallUpdateCurrentVersionSchema(entity, schema, cs, repeat) ==
  Finish(Call("update_current_version_schema", entity, "", FALSE, FALSE),
         compute_schema_hash(schema), repeat,
         update_current_version_schema(Self, entity, schema, cs, clock))

RegisterNewVersion ==
  /\ last = Idle
  /\ \E entity \in Entities, schema \in Schemas, breaking \in BOOLEAN, cs \in NewListArgs :
       CallRegisterNewVersion(entity, schema, breaking, cs, FALSE)

UpdateCurrentVersionSchema ==
  /\ last = Idle
  /\ \E entity \in Entities, schema \in Schemas, cs \in NewListArgs :
       CallUpdateCurrentVersionSchema(entity, schema, cs, FALSE)

\* a caller whose register_new_version returned calls it again for the same
\* entity with a schema of the same hash
RetryRegisterNewVersion ==
  /\ last.call.op = "register_new_version"
  /\ last.raised = ""
  /\ \E schema \in Schemas, breaking \in BOOLEAN, cs \in NewListArgs :
       /\ compute_schema_hash(schema) = last.hash
       /\ CallRegisterNewVersion(last.call.entity, schema, breaking, cs, TRUE)

\* the same for update_current_version_schema
RetryUpdateCurrentVersionSchema ==
  /\ last.call.op = "update_current_version_schema"
  /\ last.raised = ""
  /\ \E schema \in Schemas, cs \in NewListArgs :
       /\ compute_schema_hash(schema) = last.hash
       /\ CallUpdateCurrentVersionSchema(last.call.entity, schema, cs, TRUE)

\* DriftPolicyEnforcer(policy, registry) with a policy that is not valid
EnforcerRejected ==
  /\ last = Idle
  /\ \E policy \in PolicyInputs :
       /\ ~is_valid(policy)
       /\ Finish(Call("DriftPolicyEnforcer", "", policy, FALSE, FALSE), NoHash, FALSE,
                 Raised(Self, "ValueError"))

\* DriftPolicyEnforcer(policy, registry).enforce(entity, diff_report, new_schema)
Enforce ==
  /\ last = Idle
  /\ \E policy \in PolicyInputs, entity \in Entities, report \in DiffReports,
        schema \in Schemas :
       /\ is_valid(policy)
       /\ Finish(Call("enforce", entity, policy,
                      Len(Get(report, "breaking_changes", <<>>)) # 0,
                      Len(Get(report, "non_breaking_changes", <<>>)) # 0),
                 NoHash, FALSE,
                 enforce(Self, policy, entity, report, schema, clock))

Next ==
  \/ Tick
  \/ Resume
  \/ Construct
  \/ RegisterNewEntity
  \/ RegisterNewVersion
  \/ UpdateCurrentVersionSchema
  \/ RetryRegisterNewVersion
  \/ RetryUpdateCurrentVersionSchema
  \/ EnforcerRejected
  \/ Enforce

Spec == Init /\ [][Next]_vars

\* ------------------------------------------------------------------
\* The same, with callers that also pass lists the registry holds
\* ------------------------------------------------------------------
RegisterNewVersionHeld ==
  /\ last = Idle
  /\ \E entity \in Entities, schema \in Schemas, breaking \in BOOLEAN :
       \E cs \in HeldListArgs(entity) :
         CallRegisterNewVersion(entity, schema, breaking, cs, FALSE)

UpdateCurrentVersionSchemaHeld ==
  /\ last = Idle
  /\ \E entity \in Entities, schema \in Schemas :
       \E cs \in HeldListArgs(entity) :
         CallUpdateCurrentVersionSchema(entity, schema, cs, FALSE)

NextShared ==
  \/ Next
  \/ RegisterNewVersionHeld
  \/ UpdateCurrentVersionSchemaHeld

SpecShared == Init /\ [][NextShared]_vars

\* ------------------------------------------------------------------
\* The registry behind the enforcer of the accelerator package
\* ------------------------------------------------------------------
AcceleratorEnforce ==
  /\ last = Idle
  /\ \E policy \in PolicyInputs, entity \in Entities, report \in DiffReports,
        schema \in Schemas :
       Finish(Call("accelerator_enforce", entity, policy,
                   Len(Get(report, "breaking_changes", <<>>)) # 0,
                   Len(Get(report, "non_breaking_changes", <<>>)) # 0),
              NoHash, FALSE,
              accelerator_enforce(Self, policy, entity, report, schema, clock))

NextAccelerator ==
  \/ Tick
  \/ Resume
  \/ RegisterNewEntity
  \/ AcceleratorEnforce

SpecAccelerator == Init /\ [][NextAccelerator]_vars

\* ------------------------------------------------------------------
\* Two requests at once, for different entities.  Each request has a
\* SchemaRegistry handle of its own: here data and lists give, for each
\* request, what its handle holds in memory, and last gives where the
\* request is and what it was asked; disk is the one file they share.
\* ------------------------------------------------------------------
Requests == {1, 2}

RequestEntity(p) == IF p = 1 THEN "orders" ELSE "users"

EmptyRegistry == [data |-> <<>>, lists |-> <<>>, disk |-> [exists |-> FALSE, content |-> <<>>]]

\* the registry after earlier requests, one at a time
RegistryWithOrders == register_new_entity(EmptyRegistry, "orders", SchemaBase, "T1").self
RegistryWithBoth == register_new_entity(RegistryWithOrders, "users", SchemaBase, "T1").self

NotSaved == [saved |-> FALSE]

NewRequest ==
  [pc |-> "start", drift_policy |-> "", schema |-> <<>>, overlapped |-> FALSE,
   raised |-> "", ret |-> NoVersion, saved |-> NotSaved]

InitConcurrent ==
  /\ data = [p \in Requests |-> <<>>]
  /\ lists = [p \in Requests |-> <<>>]
  /\ disk \in {EmptyRegistry.disk, RegistryWithOrders.disk, RegistryWithBoth.disk}
  /\ clock = "T1"
  /\ last = [p \in Requests |-> NewRequest]

\* the handle of request p
Handle(p) == [data |-> data[p], lists |-> lists[p], disk |-> disk]

\* route up to "registry = SchemaRegistry()": the file is loaded
OpenRegistry(p) ==
  /\ last[p].pc = "start"
  /\ \E drift_policy \in {STRICT, WARN, AUTO}, schema \in Schemas :
       LET registry == _load(Handle(p))
       IN /\ data' = [data EXCEPT ![p] = registry.data]
          /\ lists' = [lists EXCEPT ![p] = registry.lists]
          /\ last' = [last EXCEPT ![p] =
                        [@ EXCEPT !.pc = "loaded", !.drift_policy = drift_policy,
                                  !.schema = schema,
                                  !.overlapped = \E q \in Requests \ {p} : last[q].pc = "loaded"]]
  /\ UNCHANGED <<disk, clock>>

\* the rest of Phase 8: the diff against the loaded registry and enforce,
\* which rewrites the file when it changes the registry
EnforceLoaded(p) ==
  /\ last[p].pc = "loaded"
  /\ LET registry == Handle(p)
         entity == RequestEntity(p)
         diff_report == route_diff_report(registry, entity, last[p].schema)
         r == enforce(registry, last[p].drift_policy, entity, diff_report, last[p].schema, clock)
         mutated == r.self.data # registry.data \/ r.self.lists # registry.lists
     IN /\ data' = [data EXCEPT ![p] = r.self.data]
        /\ lists' = [lists EXCEPT ![p] = r.self.lists]
        /\ disk' = r.self.disk
        /\ last' = [last EXCEPT ![p] =
                      [@ EXCEPT !.pc = "done", !.raised = r.raised, !.ret = r.ret,
                                !.saved = IF mutated
                                          THEN [saved |-> TRUE,
                                                entry |-> Dump(r.self.data, r.self.lists)[entity]]
                                          ELSE NotSaved]]
  /\ UNCHANGED clock

TickConcurrent ==
  /\ clock = "T1"
  /\ clock' = "T2"
  /\ UNCHANGED <<data, lists, disk, last>>

NextConcurrent ==
  \/ TickConcurrent
  \/ \E p \in Requests : OpenRegistry(p)
  \/ \E p \in Requests : EnforceLoaded(p)

SpecConcurrent == InitConcurrent /\ [][NextConcurrent]_vars

\* ------------------------------------------------------------------
\* Requests: every write to the registry is made by route
\* ------------------------------------------------------------------
\* what phases 1 to 7 come to: an exception, a preview that returns before
\* the schema is generated, or the generated schema
Sources ==
  {[source_error |-> "NaiveTimestampError", preview_only |-> FALSE, schema |-> <<>>],
   [source_error |-> "", preview_only |-> TRUE, schema |-> <<>>]}
  \cup {[source_error |-> "", preview_only |-> FALSE, schema |-> s] : s \in RouteSchemas}

\* the entity of the requests
RouteEntities == {"orders"}

\* route(payload, request)
Route ==
  /\ last = Idle
  /\ \E policy \in PolicyInputs, entity \in RouteEntities, source \in Sources :
       LET r == route(Self, policy, entity, source.source_error, source.preview_only,
                      source.schema, clock)
       IN /\ WithinBounds(r.self)
          /\ data' = r.self.data
          /\ lists' = r.self.lists
          /\ disk' = r.self.disk
          /\ clock' = clock
          /\ last' = [call |-> Call("route", entity, policy,
                                    Len(r.report.breaking_changes) # 0,
                                    Len(r.report.non_breaking_changes) # 0),
                      raised |-> r.raised, ret |-> r.ret,
                      hash |-> compute_schema_hash(source.schema),
                      changed |-> (View(r.self) # View(Self)), repeat |-> FALSE,
                      steps |-> r.steps]

NextRoute ==
  \/ Tick
  \/ Resume
  \/ Route

SpecRoute == Init /\ [][NextRoute]_vars

\* ------------------------------------------------------------------
\* Calls of SchemaDiff(old_schema, new_schema).diff() on column lists with
\* unique names.  The registry is not involved; last holds the arguments
\* and the report.
\* ------------------------------------------------------------------
ColumnTypes == {"INTEGER", "STRING"}
ColumnModes == {"NULLABLE", "REQUIRED", "REPEATED"}

\* the column email: absent, or of any type and mode, with or without a
\* description
EmailColumns ==
  {<<>>}
  \cup {<<[name |-> "email", type |-> t, mode |-> m]>> : t \in ColumnTypes, m \in ColumnModes}
  \cup {<<[name |-> "email", type |-> t, mode |-> m, description |-> "contact"]>> :
          t \in ColumnTypes, m \in ColumnModes}

ColIdStr == [name |-> "id", type |-> "STRING", mode |-> "REQUIRED"]
ColBatchIdReq == [name |-> "batch_id", type |-> "STRING", mode |-> "REQUIRED"]

DiffOldSchemas ==
  {<<ColId>> \o e \o b : e \in EmailColumns,
                         b \in {<<>>, <<ColBatchId>>, <<ColStdBatchId>>}}

DiffNewSchemas ==
  LET ids == {<<>>, <<ColId>>, <<ColIdStr>>}
      bs == {<<>>, <<ColBatchId>>, <<ColBatchIdReq>>, <<ColStdBatchId>>}
  IN {i \o e \o b : i \in ids, e \in EmailColumns, b \in bs}
     \cup {b \o e \o i : i \in ids, e \in EmailColumns, b \in bs}

Diff ==
  /\ last = Idle
  /\ \E old_schema \in DiffOldSchemas, new_schema \in DiffNewSchemas :
       LET report == diff(old_schema, new_schema)
       IN last' = [call |-> Call("diff", "", "",
                                 Len(report.breaking_changes) # 0,
                                 Len(report.non_breaking_changes) # 0),
                   raised |-> "", ret |-> NoVersion, hash |-> NoHash,
                   changed |-> FALSE, repeat |-> FALSE,
                   old_schema |-> old_schema, new_schema |-> new_schema,
                   report |-> report]
  /\ UNCHANGED <<data, lists, disk, clock>>

NextDiff ==
  \/ Diff
  \/ Resume

SpecDiff == Init /\ [][NextDiff]_vars

\* ------------------------------------------------------------------
\* Calls of compute_schema_hash on two column lists.  last holds the two
\* lists and their digests.
\* ------------------------------------------------------------------
HashColumns ==
  {[name |-> n, type |-> t, mode |-> m] :
     n \in {"id", "email"}, t \in ColumnTypes, m \in {"NULLABLE", "REQUIRED"}}
  \cup {ColEmailDoc}

\* the column lists of at most two columns; a name may occur twice
HashSchemas ==
  {<<>>} \cup {<<c>> : c \in HashColumns} \cup {<<c, d>> : c, d \in HashColumns}

Hash ==
  /\ last = Idle
  /\ \E a, b \in HashSchemas :
       last' = [call |-> Call("compute_schema_hash", "", "", FALSE, FALSE),
                raised |-> "", ret |-> NoVersion, hash |-> NoHash,
                changed |-> FALSE, repeat |-> FALSE,
                a |-> a, b |-> b,
                hash_a |-> compute_schema_hash(a), hash_b |-> compute_schema_hash(b)]
  /\ UNCHANGED <<data, lists, disk, clock>>

NextHash ==
  \/ Hash
  \/ Resume

SpecHash == Init /\ [][NextHash]_vars

\* ------------------------------------------------------------------
\* Calls of infer_type on a sample.  last holds the sample and the outcome.
\* ------------------------------------------------------------------
MaxSample == 3

Samples == UNION {[1..n -> Tokens] : n \in 0..MaxSample}

Infer ==
  /\ last = Idle
  /\ \E values \in Samples :
       LET r == infer_type(values)
       IN last' = [call |-> Call("infer_type", "", "", FALSE, FALSE),
                   raised |-> r.raised, ret |-> NoVersion, hash |-> NoHash,
                   changed |-> FALSE, repeat |-> FALSE,
                   values |-> values, type |-> r.ret]
  /\ UNCHANGED <<data, lists, disk, clock>>

IsAmbiguousBoolean ==
  /\ last = Idle
  /\ \E values \in Samples :
       last' = [call |-> Call("is_ambiguous_boolean", "", "", FALSE, FALSE),
                raised |-> "", ret |-> NoVersion, hash |-> NoHash,
                changed |-> FALSE, repeat |-> FALSE,
                values |-> values, flag |-> is_ambiguous_boolean(values)]
  /\ UNCHANGED <<data, lists, disk, clock>>

\* CSVAdapter.parse for a file of one column
InferFields ==
  /\ last = Idle
  /\ \E values \in Samples, forced_missing \in BOOLEAN :
       LET f == _infer_fields(values, forced_missing)
       IN last' = [call |-> Call("_infer_fields", "", "", FALSE, FALSE),
                   raised |-> f.raised, ret |-> NoVersion, hash |-> NoHash,
                   changed |-> FALSE, repeat |-> FALSE,
                   values |-> values, forced_missing |-> forced_missing,
                   data_type |-> f.data_type, flag |-> f.is_ambiguous_boolean]
  /\ UNCHANGED <<data, lists, disk, clock>>

NextInfer ==
  \/ Infer
  \/ IsAmbiguousBoolean
  \/ InferFields
  \/ Resume

SpecInfer == Init /\ [][NextInfer]_vars

\* ------------------------------------------------------------------
\* Calls of infer_numeric_metadata
\* ------------------------------------------------------------------
IntParts == {<<0>>, <<1>>, <<1, 0>>, <<0, 1>>}
FracParts == {<<>>, <<5>>, <<0, 5>>, <<0, 0>>}

\* 0, 1, 10, 01, each alone or followed by .5, .05 or .00
DecimalLiterals == {[int |-> a, frac |-> b] : a \in IntParts, b \in FracParts}

NumericSamples == UNION {[1..n -> DecimalLiterals \cup {Unparsed}] : n \in 0..MaxSample}

InferNumericMetadata ==
  /\ last = Idle
  /\ \E values \in NumericSamples :
       last' = [call |-> Call("infer_numeric_metadata", "", "", FALSE, FALSE),
                raised |-> "", ret |-> NoVersion, hash |-> NoHash,
                changed |-> FALSE, repeat |-> FALSE,
                values |-> values, meta |-> infer_numeric_metadata(values)]
  /\ UNCHANGED <<data, lists, disk, clock>>

NextNumeric ==
  \/ InferNumericMetadata
  \/ Resume

SpecNumeric == Init /\ [][NextNumeric]_vars

\* ------------------------------------------------------------------
\* Calls of apply_naming_normalization
\* ------------------------------------------------------------------
MaxFields == 3

NameId == <<"i", "d">>
NameIdCapital == <<"I", "d">>
NameId2 == <<"i", "d", "_", "2">>
NameIdSpace2 == <<"i", "d", " ", "2">>
NameIs == <<"i", "s">>
Name2d == <<"2", "d">>
NameBlank == <<" ">>

RawColumnNames == {NameId, NameIdCapital, NameId2, NameIdSpace2, NameIs, Name2d, NameBlank}

RawTableNames == {<<"t">>, <<"T">>}

DatasetComplete ==
  [domain |-> <<"d">>, environment |-> <<"e">>, zone |-> <<"z">>, layer |-> <<"r">>,
   dataset_name |-> <<>>]

\* no layer was given
DatasetNoLayer == [DatasetComplete EXCEPT !.layer = <<>>]

FieldsOf(names) == [i \in 1..Len(names) |-> [name |-> names[i]]]

\* one table of up to MaxFields fields
OneTableSchemas ==
  {[dataset |-> d, tables |-> <<[name |-> <<"t">>, fields |-> FieldsOf(names)]>>,
    rename_mappings |-> <<>>] :
     d \in {DatasetComplete, DatasetNoLayer},
     names \in UNION {[1..n -> RawColumnNames] : n \in 0..MaxFields}}

\* two tables of one field each
TwoTableSchemas ==
  {[dataset |-> DatasetComplete,
    tables |-> <<[name |-> <<"t">>, fields |-> FieldsOf(<<a>>)],
                 [name |-> t, fields |-> FieldsOf(<<b>>)]>>,
    rename_mappings |-> <<>>] :
     t \in RawTableNames, a \in {NameId, NameIs}, b \in {NameId, NameIdCapital, NameBlank}}

RawSchemas == OneTableSchemas \cup TwoTableSchemas

NamingResult(raw, r, repeat, first) ==
  [call |-> Call("apply_naming_normalization", "", "", FALSE, FALSE),
   raised |-> r.raised, ret |-> NoVersion, hash |-> NoHash,
   changed |-> r.schema # raw, repeat |-> repeat,
   raw |-> raw, schema |-> r.schema, seen_columns |-> r.seen_columns, first |-> first]

\* apply_naming_normalization(schema) for a schema an adapter has built
ApplyNamingNormalization ==
  /\ last = Idle
  /\ \E raw \in RawSchemas :
       last' = NamingResult(raw, apply_naming_normalization(raw), FALSE, [raised |-> "", schema |-> raw])
  /\ UNCHANGED <<data, lists, disk, clock>>

\* the same call on an equal copy of the raw schema
ApplyNamingNormalizationToCopy ==
  /\ last.call.op = "apply_naming_normalization"
  /\ ~last.repeat
  /\ last' = NamingResult(last.raw, apply_naming_normalization(last.raw), TRUE,
                          [raised |-> last.raised, schema |-> last.schema])
  /\ UNCHANGED <<data, lists, disk, clock>>

NextNaming ==
  \/ ApplyNamingNormalization
  \/ ApplyNamingNormalizationToCopy
  \/ Resume

SpecNaming == Init /\ [][NextNaming]_vars

\* ------------------------------------------------------------------
\* Properties of the registry
\* ------------------------------------------------------------------
Policies == {STRICT, WARN, AUTO}

HasBreaking(report) == Len(Get(report, "breaking_changes", <<>>)) # 0

\* C1: whatever calls were made, successful or failing, the current_version
\* of every entity of the registry is a key of that entity's versions map
\* (in memory and in the file).
CurrentVersionIsStored ==
  /\ \A e \in DOMAIN data : data[e].current_version \in DOMAIN data[e].versions
  /\ \A e \in DOMAIN disk.content :
       disk.content[e].current_version \in DOMAIN disk.content[e].versions

\* a failing call made on a registry that holds an entity at v2
CurrentVersionIsStoredWitness ==
  /\ last.raised = "ValueError"
  /\ \E e \in DOMAIN data : data[e].current_version = VersionId(2)

\* C2: the version ids of an entity are v1 .. vk without gaps, k >= 1, and
\* current_version is vk ...
VersionIdsGapFree ==
  \A e \in DOMAIN data :
    LET k == Cardinality(DOMAIN data[e].versions)
    IN /\ k >= 1
       /\ DOMAIN data[e].versions = {VersionId(i) : i \in 1..k}
       /\ data[e].current_version = VersionId(k)

\* ... and a version that a call adds to an entity has the numeric suffix
\* of the entity's current_version before the call, plus one
NewVersionIsSuccessor ==
  \A e \in DOMAIN data :
    /\ e \in DOMAIN data'
    /\ \A v \in DOMAIN data'[e].versions \ DOMAIN data[e].versions :
         /\ v[1] = "v"
         /\ StrToInt(Tail(v)) = StrToInt(Tail(data[e].current_version)) + 1

\* C2: version ids are v1, v2, ..., vk with no gaps, current_version is vk,
\* and every stored new version takes the previous current suffix plus one.
VersionIdsContiguous == []VersionIdsGapFree /\ [][NewVersionIsSuccessor]_vars

\* register_new_version has stored v2
VersionIdsContiguousWitness ==
  /\ last.call.op = "register_new_version"
  /\ last.changed
  /\ last.ret = VersionId(2)
  /\ DOMAIN data[last.call.entity].versions = {VersionId(1), VersionId(2)}

\* C3: no two versions of the same entity have the same schema_hash.
NoSharedHash ==
  \A e \in DOMAIN data :
    \A v, w \in DOMAIN data[e].versions :
      v # w => data[e].versions[v].schema_hash # data[e].versions[w].schema_hash

\* C4: once current_version has moved past a version, no call changes any
\* field of that version's stored record.
HistoricalVersionsImmutable ==
  [][\A e \in DOMAIN data :
       \A v \in DOMAIN data[e].versions :
         v # data[e].current_version =>
           /\ e \in DOMAIN data'
           /\ v \in DOMAIN data'[e].versions
           /\ Dump(data', lists')[e].versions[v] = Dump(data, lists)[e].versions[v]]_vars

\* C5: the schema_hash of every stored version is compute_schema_hash of the
\* schema stored with it (in memory and in the file).
HashMatchesSchema ==
  /\ \A e \in DOMAIN data :
       \A v \in DOMAIN data[e].versions :
         data[e].versions[v].schema_hash = compute_schema_hash(data[e].versions[v].schema)
  /\ \A e \in DOMAIN disk.content :
       \A v \in DOMAIN disk.content[e].versions :
         disk.content[e].versions[v].schema_hash =
           compute_schema_hash(disk.content[e].versions[v].schema)

\* a version whose schema was replaced in place at a later time
HashMatchesSchemaWitness ==
  \E e \in DOMAIN data :
    \E v \in DOMAIN data[e].versions :
      data[e].versions[v].modified_at # data[e].versions[v].generated_at

\* C6: a second call of register_new_version, or of
\* update_current_version_schema, with the same entity and schema as the
\* call before it returns the same version id and changes nothing: no
\* version added, no record changed, change_summary not extended, no write.
SecondCallIsNoop ==
  last = Idle =>
    \A e \in DOMAIN data, schema \in Schemas, t \in Times :
      /\ \A b1, b2 \in BOOLEAN, cs1, cs2 \in NewListArgs :
           LET first == register_new_version(Self, e, schema, b1, cs1, clock)
               second == register_new_version(first.self, e, schema, b2, cs2, t)
           IN /\ second.raised = ""
              /\ second.ret = first.ret
              /\ second.self = first.self
      /\ \A cs1, cs2 \in NewListArgs :
           LET first == update_current_version_schema(Self, e, schema, cs1, clock)
               second == update_current_version_schema(first.self, e, schema, cs2, t)
           IN /\ second.raised = ""
              /\ second.ret = first.ret
              /\ second.self = first.self

\* register_new_version has been called again after it stored a version
SecondCallIsNoopWitness ==
  /\ last.repeat
  /\ last.call.op = "register_new_version"
  /\ last.raised = ""
  /\ last.ret = VersionId(2)

\* C7: register_new_entity for an entity that exists, and the version
\* operations for an entity that does not, raise and leave the registry, in
\* memory and in the file, as it was.
FailedCallChangesNothing ==
  [][(\/ /\ last'.call.op = "register_new_entity"
         /\ last'.call.entity \in DOMAIN data
      \/ /\ last'.call.op \in {"register_new_version", "update_current_version_schema"}
         /\ last'.call.entity \notin DOMAIN data)
     => /\ last'.raised = "ValueError"
        /\ data' = data
        /\ lists' = lists
        /\ disk' = disk]_vars

\* register_new_entity has raised for an entity that exists
FailedCallChangesNothingWitness ==
  /\ last.call.op = "register_new_entity"
  /\ last.raised = "ValueError"
  /\ last.call.entity \in DOMAIN data

\* C8: update_current_version_schema with a schema of another hash replaces
\* the current version's schema and hash, appends the given entries after
\* the entries the version has, returns the unchanged current version id and
\* adds no version; with a schema of the same hash it changes and writes
\* nothing.
UpdateInPlace ==
  last = Idle =>
    \A e \in DOMAIN data, schema \in Schemas, cs \in NewListArgs :
      LET r == update_current_version_schema(Self, e, schema, cs, clock)
          cv == data[e].current_version
          old == data[e].versions[cv]
          new == r.self.data[e].versions[cv]
      IN /\ r.raised = ""
         /\ r.ret = cv
         /\ r.self.data[e].current_version = cv
         /\ DOMAIN r.self.data[e].versions = DOMAIN data[e].versions
         /\ IF compute_schema_hash(schema) # old.schema_hash
            THEN /\ new.schema = schema
                 /\ new.schema_hash = compute_schema_hash(schema)
                 /\ r.self.lists[new.change_summary] = lists[old.change_summary] \o cs.value
                 /\ r.self.disk = [exists |-> TRUE, content |-> View(r.self)]
            ELSE r.self = Self

\* update_current_version_schema has changed the current version
UpdateInPlaceWitness ==
  /\ last.call.op = "update_current_version_schema"
  /\ last.changed
  /\ last.ret = data[last.call.entity].current_version
  /\ Len(lists[data[last.call.entity].versions[last.ret].change_summary]) = 2

\* C9: for an entity the registry does not know, enforce under every policy
\* and for every report registers it: v1, breaking_change false,
\* change_summary ["initial version"], and returns v1 without raising.
FirstSubmissionRegisters ==
  last = Idle =>
    \A e \in Entities \ DOMAIN data, policy \in Policies,
       report \in DiffReports, schema \in Schemas :
      LET r == enforce(Self, policy, e, report, schema, clock)
      IN /\ r.raised = ""
         /\ r.ret = VersionId(1)
         /\ e \in DOMAIN r.self.data
         /\ r.self.data[e].current_version = VersionId(1)
         /\ DOMAIN r.self.data[e].versions = {VersionId(1)}
         /\ r.self.data[e].versions[VersionId(1)].breaking_change = FALSE
         /\ r.self.data[e].versions[VersionId(1)].schema = schema
         /\ r.self.lists[r.self.data[e].versions[VersionId(1)].change_summary]
              = <<InitialEntry>>
         /\ r.self.disk = [exists |-> TRUE, content |-> View(r.self)]

\* enforce under STRICT, with a report that lists a breaking change, has
\* registered an entity
FirstSubmissionRegistersWitness ==
  /\ last.call.op = "enforce"
  /\ last.call.policy = STRICT
  /\ last.call.has_breaking
  /\ last.changed
  /\ last.raised = ""
  /\ last.ret = VersionId(1)

\* C10: under STRICT, for an entity that exists and a report that lists a
\* breaking change, enforce raises and the registry, in memory and in the
\* file, is unchanged.
StrictRejects ==
  last = Idle =>
    \A e \in DOMAIN data, report \in DiffReports, schema \in Schemas :
      HasBreaking(report) =>
        LET r == enforce(Self, STRICT, e, report, schema, clock)
        IN /\ r.raised = "RuntimeError"
           /\ r.self = Self

\* enforce has raised under STRICT
StrictRejectsWitness ==
  /\ last.call.op = "enforce"
  /\ last.call.policy = STRICT
  /\ last.call.has_breaking
  /\ last.raised = "RuntimeError"
  /\ ~last.changed

\* C11: under WARN, for an entity that exists and a report that lists a
\* breaking change (with or without non-breaking changes), enforce returns
\* the current version, which stays the current version, and the registry,
\* in memory and in the file, is unchanged.
WarnKeepsCurrent ==
  last = Idle =>
    \A e \in DOMAIN data, report \in DiffReports, schema \in Schemas :
      HasBreaking(report) =>
        LET r == enforce(Self, WARN, e, report, schema, clock)
        IN /\ r.raised = ""
           /\ r.ret = data[e].current_version
           /\ r.self = Self

\* enforce has returned under WARN for a report that lists breaking and
\* non-breaking changes
WarnKeepsCurrentWitness ==
  /\ last.call.op = "enforce"
  /\ last.call.policy = WARN
  /\ last.call.has_breaking
  /\ last.call.has_non_breaking
  /\ last.raised = ""
  /\ ~last.changed
  /\ last.ret = data[last.call.entity].current_version

\* the registry after enforce has stored new_schema for entity e as a new
\* breaking version whose change_summary is the report's breaking changes
\* followed by its non-breaking changes
StoredNewBreakingVersion(r, e, report, schema) ==
  LET next == VersionId(StrToInt(Tail(data[e].current_version)) + 1)
  IN /\ r.raised = ""
     /\ r.ret = next
     /\ r.self.data[e].current_version = next
     /\ DOMAIN r.self.data[e].versions = DOMAIN data[e].versions \cup {next}
     /\ next \notin DOMAIN data[e].versions
     /\ r.self.data[e].versions[next].version = next
     /\ r.self.data[e].versions[next].breaking_change = TRUE
     /\ r.self.data[e].versions[next].schema = schema
     /\ r.self.lists[r.self.data[e].versions[next].change_summary]
          = Get(report, "breaking_changes", <<>>) \o Get(report, "non_breaking_changes", <<>>)
     /\ r.self.disk = [exists |-> TRUE, content |-> View(r.self)]

\* C12 as stated: under AUTO, for an entity that exists and a report that
\* lists a breaking change, enforce stores a new version with the next id,
\* breaking_change true, the new schema and the breaking changes followed by
\* the non-breaking changes, makes it current and returns its id.
AutoStoresNewVersion ==
  last = Idle =>
    \A e \in DOMAIN data, report \in DiffReports, schema \in Schemas :
      HasBreaking(report) =>
        StoredNewBreakingVersion(enforce(Self, AUTO, e, report, schema, clock),
                                 e, report, schema)

\* C12 amended: the same when the structural hash of new_schema differs
\* from the hash of the current version; when the two hashes are equal
\* enforce returns the current version id and changes nothing.
AutoStoresNewVersionOnNewHash ==
  last = Idle =>
    \A e \in DOMAIN data, report \in DiffReports, schema \in Schemas :
      HasBreaking(report) =>
        LET r == enforce(Self, AUTO, e, report, schema, clock)
            cv == data[e].current_version
        IN IF compute_schema_hash(schema) # data[e].versions[cv].schema_hash
           THEN StoredNewBreakingVersion(r, e, report, schema)
           ELSE /\ r.raised = ""
                /\ r.ret = cv
                /\ r.self = Self

\* enforce under AUTO has stored v2 for a report that lists breaking and
\* non-breaking changes
AutoStoresNewVersionOnNewHashWitness ==
  /\ last.call.op = "enforce"
  /\ last.call.policy = AUTO
  /\ last.call.has_breaking
  /\ last.call.has_non_breaking
  /\ last.changed
  /\ last.ret = VersionId(2)
  /\ data[last.call.entity].current_version = VersionId(2)
  /\ data[last.call.entity].versions[VersionId(2)].breaking_change
  /\ Len(lists[data[last.call.entity].versions[VersionId(2)].change_summary]) = 2

\* a report that lists non-breaking changes and no breaking change
OnlyNonBreaking(report) ==
  /\ ~HasBreaking(report)
  /\ Len(Get(report, "non_breaking_changes", <<>>)) # 0

\* the registry after enforce has folded new_schema into the current
\* version of entity e
FoldedIntoCurrent(r, e, report, schema) ==
  LET cv == data[e].current_version
      old == data[e].versions[cv]
      new == r.self.data[e].versions[cv]
  IN /\ r.raised = ""
     /\ r.ret = cv
     /\ r.self.data[e].current_version = cv
     /\ DOMAIN r.self.data[e].versions = DOMAIN data[e].versions
     /\ new.schema = schema
     /\ r.self.lists[new.change_summary]
          = lists[old.change_summary] \o Get(report, "non_breaking_changes", <<>>)

\* C13 as stated: for an entity that exists and a report that lists only
\* non-breaking changes of any kind, enforce under every policy keeps the
\* current version id, adds no version, stores new_schema as the current
\* version's schema and appends the non-breaking entries to its
\* change_summary.
NonBreakingFolded ==
  last = Idle =>
    \A e \in DOMAIN data, policy \in Policies, report \in DiffReports,
       schema \in Schemas :
      OnlyNonBreaking(report) =>
        FoldedIntoCurrent(enforce(Self, policy, e, report, schema, clock),
                          e, report, schema)

\* C13 amended: the same when the structural hash of new_schema differs
\* from the hash of the current version; when the two hashes are equal (a
\* description-only modification) enforce returns the current version id
\* and changes nothing.
NonBreakingFoldedOnNewHash ==
  last = Idle =>
    \A e \in DOMAIN data, policy \in Policies, report \in DiffReports,
       schema \in Schemas :
      OnlyNonBreaking(report) =>
        LET r == enforce(Self, policy, e, report, schema, clock)
            cv == data[e].current_version
        IN IF compute_schema_hash(schema) # data[e].versions[cv].schema_hash
           THEN FoldedIntoCurrent(r, e, report, schema)
           ELSE /\ r.raised = ""
                /\ r.ret = cv
                /\ r.self = Self

\* enforce under STRICT has folded a non-breaking change into v1
NonBreakingFoldedOnNewHashWitness ==
  /\ last.call.op = "enforce"
  /\ last.call.policy = STRICT
  /\ ~last.call.has_breaking
  /\ last.call.has_non_breaking
  /\ last.changed
  /\ last.raised = ""
  /\ last.ret = VersionId(1)
  /\ DOMAIN data[last.call.entity].versions = {VersionId(1)}
  /\ Len(lists[data[last.call.entity].versions[VersionId(1)].change_summary]) = 2

\* a request for entity e with schema, under policy, on registry self: its
\* report is empty, it returns version, and the registry as a caller reads
\* it and the file are those of self
RouteIsNoop(r, self, version) ==
  /\ r.report = EmptyReport
  /\ r.raised = ""
  /\ r.ret = version
  /\ View(r.self) = View(self)
  /\ r.self.disk = self.disk

\* C14: a request that resubmits, for a known entity, a schema whose
\* structural hash is the hash of the current version gets an empty diff
\* report and is a no-op under every policy: the current version id is
\* returned, no version is added, no record changes; and after a request
\* that stored its schema, an identical request under any policy is such a
\* no-op, so the entity stays at the same version.
ResubmissionIsNoop ==
  last = Idle =>
    \A e \in RouteEntities, p1, p2 \in Policies, schema \in RouteSchemas :
      /\ (/\ e \in DOMAIN data
          /\ compute_schema_hash(schema)
               = data[e].versions[data[e].current_version].schema_hash)
         => RouteIsNoop(route(Self, p1, e, "", FALSE, schema, clock), Self,
                        data[e].current_version)
      /\ LET first == route(Self, p1, e, "", FALSE, schema, clock)
         IN (/\ first.raised = ""
             /\ compute_schema_hash(schema)
                  = first.self.data[e].versions[first.ret].schema_hash)
            => RouteIsNoop(route(first.self, p2, e, "", FALSE, schema, clock),
                           first.self, first.ret)

\* a request under STRICT has resubmitted a schema of the current version's
\* hash and v1 has been returned
ResubmissionIsNoopWitness ==
  /\ last.call.op = "route"
  /\ last.call.policy = STRICT
  /\ last.steps = <<StepDetect, StepParse, StepRegistry>>
  /\ last.raised = ""
  /\ ~last.changed
  /\ last.call.entity \in DOMAIN data
  /\ last.ret = VersionId(1)
  /\ data[last.call.entity].current_version = VersionId(1)
  /\ last.hash = data[last.call.entity].versions[VersionId(1)].schema_hash

\* C15: whenever enforce returns, the version id it returns is the
\* current_version of the entity in the registry after the call.
EnforceReturnsCurrent ==
  last = Idle =>
    \A e \in Entities, policy \in Policies, report \in DiffReports,
       schema \in Schemas :
      LET r == enforce(Self, policy, e, report, schema, clock)
      IN r.raised = "" =>
           /\ e \in DOMAIN r.self.data
           /\ r.ret = r.self.data[e].current_version
           /\ r.ret = r.self.disk.content[e].current_version

\* enforce has returned v2 without changing the registry
EnforceReturnsCurrentWitness ==
  /\ last.call.op = "enforce"
  /\ last.raised = ""
  /\ ~last.changed
  /\ last.ret = VersionId(2)
  /\ data[last.call.entity].current_version = VersionId(2)

\* C16: a drift policy other than STRICT, WARN and AUTO is an error:
\* DriftPolicyEnforcer raises when constructed with it, and route raises
\* before format detection, parsing and inference start and leaves the
\* registry, in memory and in the file, as it was.
InvalidPolicyRejected ==
  last = Idle =>
    \A policy \in PolicyInputs \ Policies :
      /\ DriftPolicyEnforcer(policy, Self).raised = "ValueError"
      /\ \A e \in RouteEntities, source \in Sources :
           LET r == route(Self, policy, e, source.source_error, source.preview_only,
                          source.schema, clock)
           IN /\ r.raised = "ValueError"
              /\ r.steps = <<>>
              /\ r.self = Self

\* a request with an invalid policy has been rejected on a registry that
\* holds an entity
InvalidPolicyRejectedWitness ==
  /\ last.call.op = "route"
  /\ last.call.policy \notin Policies
  /\ last.raised = "ValueError"
  /\ last.steps = <<>>
  /\ ~last.changed
  /\ DOMAIN data # {}

\* the column named n of a list with unique names
HasColumn(schema, n) == \E i \in 1..Len(schema) : schema[i].name = n
Column(schema, n) == schema[CHOOSE i \in 1..Len(schema) : schema[i].name = n]
ColumnNames(schema) == {schema[i].name : i \in 1..Len(schema)}

\* the entries of a list of changes that are about column n
ChangesOf(changes, n) ==
  LET About(c) == c.column = n
  IN SelectSeq(changes, About)

\* what C17 says of column n: <<>> for an unchanged column, otherwise
\* <<breaking, entry>>
StatedChange(old_schema, new_schema, n) ==
  IF ~HasColumn(old_schema, n)
  THEN IF Column(new_schema, n).mode = "REQUIRED"
       THEN <<TRUE, [type |-> "ADD_REQUIRED_COLUMN", column |-> n]>>
       ELSE <<FALSE, [type |-> "ADD_NULLABLE_COLUMN", column |-> n]>>
  ELSE IF ~HasColumn(new_schema, n)
  THEN <<TRUE, [type |-> "REMOVE_COLUMN", column |-> n]>>
  ELSE LET old == Column(old_schema, n)
           new == Column(new_schema, n)
       IN IF old.type # new.type
          THEN <<TRUE, [type |-> "TYPE_CHANGE", column |-> n,
                        from |-> old.type, to |-> new.type]>>
          ELSE IF old.mode = "NULLABLE" /\ new.mode = "REQUIRED"
          THEN <<TRUE, [type |-> "NULLABLE_TO_REQUIRED", column |-> n]>>
          ELSE IF old.mode # new.mode \/ Description(old) # Description(new)
          THEN <<FALSE, [type |-> "NON_BREAKING_MODIFICATION", column |-> n]>>
          ELSE <<>>

\* the report has, for column n, exactly the stated entry in the stated
\* list and nothing else
ReportsAsStated(report, old_schema, new_schema, n) ==
  LET stated == StatedChange(old_schema, new_schema, n)
      breaking == ChangesOf(report.breaking_changes, n)
      non_breaking == ChangesOf(report.non_breaking_changes, n)
  IN IF stated = <<>> THEN breaking = <<>> /\ non_breaking = <<>>
     ELSE IF stated[1] THEN breaking = <<stated[2]>> /\ non_breaking = <<>>
     ELSE breaking = <<>> /\ non_breaking = <<stated[2]>>

\* C17 as stated: for column lists with unique names, diff has exactly one
\* entry, in breaking_changes or non_breaking_changes, for every differing
\* column and none for an unchanged one: ADD_REQUIRED_COLUMN (breaking) or
\* ADD_NULLABLE_COLUMN for a column only in new, REMOVE_COLUMN (breaking)
\* for a column only in old, TYPE_CHANGE (breaking, with from and to) for a
\* change of type, otherwise NULLABLE_TO_REQUIRED (breaking) for that change
\* of mode, otherwise NON_BREAKING_MODIFICATION for another change of mode
\* or of description.
DiffClassifiesEveryColumn ==
  last.call.op = "diff" =>
    \A n \in ColumnNames(last.old_schema) \cup ColumnNames(last.new_schema) :
      ReportsAsStated(last.report, last.old_schema, last.new_schema, n)

\* C17 amended: the same for every column whose name is not in
\* METADATA_COLUMNS; a column whose name is in METADATA_COLUMNS has no entry.
DiffClassifiesKeptColumns ==
  last.call.op = "diff" =>
    \A n \in ColumnNames(last.old_schema) \cup ColumnNames(last.new_schema) :
      IF n \in METADATA_COLUMNS
      THEN /\ ChangesOf(last.report.breaking_changes, n) = <<>>
           /\ ChangesOf(last.report.non_breaking_changes, n) = <<>>
      ELSE ReportsAsStated(last.report, last.old_schema, last.new_schema, n)

\* diff has reported a type change of email, the removal of id and nothing
\* for batch_id, which is only in new
DiffClassifiesKeptColumnsWitness ==
  /\ last.call.op = "diff"
  /\ HasColumn(last.new_schema, "batch_id")
  /\ ~HasColumn(last.old_schema, "batch_id")
  /\ Len(last.report.breaking_changes) = 2
  /\ \E i \in 1..2 : last.report.breaking_changes[i].type = "TYPE_CHANGE"
  /\ \E i \in 1..2 : last.report.breaking_changes[i].type = "REMOVE_COLUMN"
  /\ last.report.non_breaking_changes = <<>>

\* column n is in no list of the report
NotReported(report, n) ==
  /\ \A i \in 1..Len(report.added_columns) : report.added_columns[i].name # n
  /\ \A i \in 1..Len(report.removed_columns) : report.removed_columns[i].name # n
  /\ \A i \in 1..Len(report.modified_columns) : report.modified_columns[i].column # n
  /\ ChangesOf(report.breaking_changes, n) = <<>>
  /\ ChangesOf(report.non_breaking_changes, n) = <<>>

\* a column list without its platform metadata columns
WithoutMetadata(schema) ==
  LET Business(f) == f.name \notin METADATA_COLUMNS \cup StandardMetadataNames
  IN SelectSeq(schema, Business)

\* C18: platform metadata columns are never diffed: a column whose name is
\* in the diff's fixed set is in no list of the report, so is a column whose
\* name is that of a standard metadata column that MetadataInjector adds
\* (the fixed set covers those names), and two schemas that differ only in
\* such columns get a report with no added, removed, modified, breaking or
\* non-breaking entry.
MetadataColumnsNeverDiffed ==
  last.call.op = "diff" =>
    /\ \A n \in ColumnNames(last.old_schema) \cup ColumnNames(last.new_schema) :
         n \in METADATA_COLUMNS \cup StandardMetadataNames => NotReported(last.report, n)
    /\ WithoutMetadata(last.old_schema) = WithoutMetadata(last.new_schema)
         => last.report = EmptyReport

\* how many times x occurs in the list s
Occurrences(s, x) == Cardinality({i \in 1..Len(s) : s[i] = x})

\* b holds the columns of a in some order
IsReordering(a, b) ==
  /\ Len(a) = Len(b)
  /\ \A i \in 1..Len(a) : Occurrences(a, a[i]) = Occurrences(b, a[i])

\* the (name, type, mode) triples of a column list, in order
Triples(s) == [i \in 1..Len(s) |-> <<s[i].name, s[i].type, s[i].mode>>]

\* a and b are the same but for the descriptions of their columns
DifferOnlyInDescription(a, b) == Triples(a) = Triples(b)

\* a and b have the same collection of triples
SameTriples(a, b) == IsReordering(Triples(a), Triples(b))

\* C19: compute_schema_hash gives two column lists the same digest when one
\* is a reordering of the other and when they differ only in description,
\* and different digests when their collections of (name, type, mode)
\* triples differ.
HashIsStructural ==
  last.call.op = "compute_schema_hash" =>
    /\ IsReordering(last.a, last.b) => last.hash_a = last.hash_b
    /\ DifferOnlyInDescription(last.a, last.b) => last.hash_a = last.hash_b
    /\ ~SameTriples(last.a, last.b) => last.hash_a # last.hash_b

\* the tokens of the forms YYYY-MM-DD HH:MM:SS and YYYY-MM-DDTHH:MM:SS
NaiveTimestampTokens == {"2024-01-01 10:00:00", "2024-01-01T10:00:00", NaivePadded}

\* C20: for a sample that holds at least one naive timestamp token,
\* whatever its other tokens, infer_type raises NaiveTimestampError and
\* returns no type.
NaiveTimestampRaises ==
  last.call.op = "infer_type" =>
    ((\E i \in 1..Len(last.values) : last.values[i] \in NaiveTimestampTokens)
       => /\ last.raised = "NaiveTimestampError"
          /\ last.type = "")

\* infer_type has raised for a sample of a number, a timestamp with a
\* timezone and a naive timestamp
NaiveTimestampRaisesWitness ==
  /\ last.call.op = "infer_type"
  /\ last.values = <<"42", "2024-01-01T10:00:00Z", "2024-01-01T10:00:00">>
  /\ last.raised = "NaiveTimestampError"

\* ------------------------------------------------------------------
\* Properties of type inference
\* ------------------------------------------------------------------
\* a null token: trimmed, it is one of the null markers
IsNullToken(v) == Strip(v) \in {"", "NULL"}

\* the tokens of a sample that are not null
NonNull(values) == SelectSeq(values, LAMBDA v : ~IsNullToken(v))

\* 0 and 1, also with surrounding blanks
ZeroOneTokens == {"0", "1", OnePadded}
BooleanLiterals == {"true", "TRUE", "no"} \cup ZeroOneTokens

OnlyZeroOne(values) ==
  /\ Len(NonNull(values)) > 0
  /\ \A i \in 1..Len(values) : IsNullToken(values[i]) \/ values[i] \in ZeroOneTokens

BooleanWords(values) ==
  /\ \A i \in 1..Len(values) : IsNullToken(values[i]) \/ values[i] \in BooleanLiterals
  /\ \E i \in 1..Len(values) : values[i] \in BooleanLiterals \ ZeroOneTokens

\* C21: for a sample whose non-null tokens are all "0" or "1" (at least
\* one), infer_type returns INTEGER and is_ambiguous_boolean returns true;
\* for a sample whose non-null tokens are all boolean literals, at least one
\* of them not 0 or 1, infer_type returns BOOLEAN and is_ambiguous_boolean
\* returns false.
ZeroOneIsAmbiguousInteger ==
  /\ last.call.op = "infer_type" =>
       /\ OnlyZeroOne(last.values) => last.raised = "" /\ last.type = "INTEGER"
       /\ BooleanWords(last.values) => last.raised = "" /\ last.type = "BOOLEAN"
  /\ last.call.op = "is_ambiguous_boolean" =>
       /\ OnlyZeroOne(last.values) => last.flag = TRUE
       /\ BooleanWords(last.values) => last.flag = FALSE

\* the same for the samples without a token of blanks only: holds
ZeroOneIsAmbiguousIntegerNoBlank ==
  (/\ last.call.op \in {"infer_type", "is_ambiguous_boolean"}
   /\ \A i \in 1..Len(last.values) : last.values[i] # Blank) => ZeroOneIsAmbiguousInteger

Levels == <<"BOOLEAN", "INTEGER", "DECIMAL", "FLOAT", "TIMESTAMP", "DATE", "GEOGRAPHY", "RANGE_DATE">>

\* the predicate of a level, on a trimmed token
Satisfies(level, v) ==
  CASE level = "BOOLEAN" -> _is_boolean(v)
    [] level = "INTEGER" -> _is_integer(v)
    [] level = "DECIMAL" -> _is_decimal(v)
    [] level = "FLOAT" -> _is_float(v)
    [] level = "TIMESTAMP" -> _is_timestamp_utc(v)
    [] level = "DATE" -> _is_date(v)
    [] level = "GEOGRAPHY" -> _is_geography(v)
    [] level = "RANGE_DATE" -> _is_range_date(v)

AllSatisfy(level, tokens) == \A i \in 1..Len(tokens) : Satisfies(level, Strip(tokens[i]))

\* the type the promotion order gives to the non-null tokens
Promoted(tokens) ==
  IF Len(tokens) = 0 \/ ~\E k \in 1..Len(Levels) : AllSatisfy(Levels[k], tokens)
  THEN "STRING"
  ELSE LET k == CHOOSE j \in 1..Len(Levels) :
                  /\ AllSatisfy(Levels[j], tokens)
                  /\ \A h \in 1..(j - 1) : ~AllSatisfy(Levels[h], tokens)
       IN IF Levels[k] = "BOOLEAN" /\ (\A i \in 1..Len(tokens) : tokens[i] \in ZeroOneTokens)
          THEN "INTEGER"
          ELSE Levels[k]

NoNaiveToken(values) == \A i \in 1..Len(values) : ~_is_naive_timestamp(Strip(values[i]))

\* C22: for a sample without a naive timestamp token, infer_type returns
\* the first level of the promotion order that every non-null token
\* satisfies (INTEGER for an all-0/1 sample), and STRING when there is no
\* such level or no non-null token.
PromotionOrder ==
  (last.call.op = "infer_type" /\ NoNaiveToken(last.values)) =>
    /\ last.raised = ""
    /\ last.type = Promoted(NonNull(last.values))

\* the same for the samples without a token of blanks only: holds
PromotionOrderNoBlank ==
  (/\ last.call.op = "infer_type"
   /\ \A i \in 1..Len(last.values) : last.values[i] # Blank) => PromotionOrder

\* C29: for a CSV column whose non-null sampled tokens are all 0 or 1, the
\* field built by _infer_fields without a type override has data_type
\* INTEGER and is_ambiguous_boolean = true.
AmbiguityFlagged ==
  (/\ last.call.op = "_infer_fields"
   /\ ~last.forced_missing
   /\ OnlyZeroOne(last.values)
   /\ \A i \in 1..Len(last.values) : last.values[i] # Blank)
    => /\ last.data_type = "INTEGER"
       /\ last.flag = TRUE

\* what the code does: no field is ever flagged
NeverFlagged ==
  last.call.op = "_infer_fields" => last.flag = FALSE

\* C23: whenever infer_numeric_metadata returns a NumericMetadata for a
\* sample of decimal literals, scale <= precision and max_integer_digits =
\* precision - scale >= 0.
ScaleWithinPrecision ==
  (/\ last.call.op = "infer_numeric_metadata"
   /\ \A i \in 1..Len(last.values) : last.values[i] \in DecimalLiterals
   /\ last.meta # None)
    => /\ last.meta.scale <= last.meta.precision
       /\ last.meta.max_integer_digits = last.meta.precision - last.meta.scale
       /\ last.meta.max_integer_digits >= 0

\* the literals whose integer part is not zero
NonZeroIntPart(v) == \E i \in 1..Len(v.int) : v.int[i] # 0

\* the same for the samples in which every literal is 1 or more: holds
ScaleWithinPrecisionAboveOne ==
  (/\ last.call.op = "infer_numeric_metadata"
   /\ \A i \in 1..Len(last.values) : NonZeroIntPart(last.values[i]))
    => ScaleWithinPrecision

\* ------------------------------------------------------------------
\* Properties of naming normalization
\* ------------------------------------------------------------------
\* apply_naming_normalization has returned
Normalized == last.call.op = "apply_naming_normalization" /\ last.raised = ""

RawFields(j) == last.raw.tables[j].fields
FinalFields(j) == last.schema.tables[j].fields

\* C24: after apply_naming_normalization, the final column names within
\* each table are pairwise distinct, whatever the raw names.
FinalNamesDistinct ==
  Normalized =>
    \A j \in 1..Len(last.schema.tables) :
      \A i, k \in 1..Len(FinalFields(j)) :
        i # k => FinalFields(j)[i].name # FinalFields(j)[k].name

\* no raw name normalizes to the numbered form of another name of its table
NoNumberedRawName(j) ==
  \A i, k \in 1..Len(RawFields(j)) :
    \A n \in 2..(MaxFields + 1) :
      normalize_identifier(RawFields(j)[i].name).ret #
        Suffixed(normalize_identifier(RawFields(j)[k].name).ret, n)

\* the same for the tables without such a raw name: holds
FinalNamesDistinctUnnumbered ==
  (Normalized /\ \A j \in 1..Len(last.raw.tables) : NoNumberedRawName(j)) => FinalNamesDistinct

\* the normalized, keyword-resolved name of field k of table j
ResolvedName(j, k) ==
  LET n == normalize_identifier(RawFields(j)[k].name).ret
  IN IF is_bigquery_reserved_keyword(n)
     THEN last.schema.tables[j].name \o <<"_">> \o n
     ELSE n

\* how many of the fields 1..k of table j have the resolved name of field k
Occurrence(j, k) == Cardinality({i \in 1..k : ResolvedName(j, i) = ResolvedName(j, k)})

\* C25: within a table, in source order, the first field whose normalized
\* and keyword-resolved name is N keeps N and the n-th field with that name,
\* n >= 2, is named N_n; raw names id, Id, id become id, id_2, id_3.
NthRepeatIsNumbered ==
  Normalized =>
    \A j \in 1..Len(last.schema.tables) :
      /\ \A k \in 1..Len(FinalFields(j)) :
           FinalFields(j)[k].name =
             IF Occurrence(j, k) = 1 THEN ResolvedName(j, k)
             ELSE ResolvedName(j, k) \o <<"_">> \o IntToStr(Occurrence(j, k))
      /\ RawFields(j) = FieldsOf(<<NameId, NameIdCapital, NameId>>)
           => FinalFields(j) = FieldsOf(<<<<"i", "d">>, <<"i", "d", "_", "2">>, <<"i", "d", "_", "3">>>>)

\* id, Id, id have been normalized to id, id_2, id_3
NthRepeatIsNumberedWitness ==
  /\ Normalized
  /\ Len(last.raw.tables) = 1
  /\ RawFields(1) = FieldsOf(<<NameId, NameIdCapital, NameId>>)
  /\ FinalFields(1) = FieldsOf(<<<<"i", "d">>, <<"i", "d", "_", "2">>, <<"i", "d", "_", "3">>>>)

\* C26: after apply_naming_normalization, for every field of every table,
\* the field's raw name looked up in rename_mappings.columns[final table
\* name] is the field's final name, and every raw table name maps to its
\* final table name.
RenameMappingsComplete ==
  Normalized =>
    \A j \in 1..Len(last.schema.tables) :
      LET final_table == last.schema.tables[j].name
      IN /\ last.raw.tables[j].name \in DOMAIN last.schema.rename_mappings.tables
         /\ last.schema.rename_mappings.tables[last.raw.tables[j].name] = final_table
         /\ final_table \in DOMAIN last.schema.rename_mappings.columns
         /\ \A k \in 1..Len(FinalFields(j)) :
              /\ RawFields(j)[k].name \in DOMAIN last.schema.rename_mappings.columns[final_table]
              /\ last.schema.rename_mappings.columns[final_table][RawFields(j)[k].name]
                   = FinalFields(j)[k].name

\* the raw names of a table are pairwise distinct, and so are the final
\* names of the tables
DistinctRawNames ==
  /\ \A j \in 1..Len(last.raw.tables) :
       \A i, k \in 1..Len(RawFields(j)) : i # k => RawFields(j)[i].name # RawFields(j)[k].name
  /\ \A i, j \in 1..Len(last.schema.tables) :
       i # j => last.schema.tables[i].name # last.schema.tables[j].name

\* the same for the schemas of distinct raw names: holds
RenameMappingsCompleteDistinct ==
  (Normalized /\ DistinctRawNames) => RenameMappingsComplete

AcceleratorWarnKeepsCurrent ==
  last = Idle =>
    \A e \in DOMAIN data, report \in DiffReports, schema \in Schemas :
      HasBreaking(report) =>
        LET r == accelerator_enforce(Self, WARN, e, report, schema, clock)
        IN /\ r.raised = ""
           /\ r.ret = data[e].current_version
           /\ r.self = Self

\* what the code keeps under WARN: the id of the current version
AcceleratorWarnKeepsVersionId ==
  last = Idle =>
    \A e \in DOMAIN data, report \in DiffReports, schema \in Schemas :
      HasBreaking(report) =>
        LET r == accelerator_enforce(Self, WARN, e, report, schema, clock)
        IN /\ r.raised = ""
           /\ r.ret = data[e].current_version
           /\ r.self.data[e].current_version = data[e].current_version
           /\ DOMAIN r.self.data[e].versions = DOMAIN data[e].versions

\* ------------------------------------------------------------------
\* Properties of concurrent requests
\* ------------------------------------------------------------------
BothCompleted == \A p \in Requests : last[p].pc = "done" /\ last[p].raised = ""

\* the file holds what request p stored for its entity
Persisted(p) ==
  last[p].saved.saved =>
    /\ disk.exists
    /\ RequestEntity(p) \in DOMAIN disk.content
    /\ disk.content[RequestEntity(p)] = last[p].saved.entry

\* C28: when two requests for different entities run concurrently, each
\* through its own SchemaRegistry handle, and both complete, the persisted
\* store contains the mutation of both: no interleaving loses one
\* entity's registered version or update.
NoLostMutation ==
  BothCompleted => \A p \in Requests : Persisted(p)

\* the same when no request opens the registry while the other one has it
\* open: holds
NoLostMutationOneAtATime ==
  (BothCompleted /\ \A p \in Requests : ~last[p].overlapped) => \A p \in Requests : Persisted(p)

====
